---- MODULE Spec2Model ----
(***************************************************************************)
(* GeoStar Raster (src/Raster.hpp, src/Raster.cpp): a named 2-D array of   *)
(* a fixed element type in an HDF5 image, its slice read/write and the     *)
(* image-processing operations built on them.                              *)
(*                                                                         *)
(* Samples are exact rationals <<numerator, denominator>> in lowest terms  *)
(* (the rounding of float and double arithmetic is abstracted away; the    *)
(* conversion to the element type of a raster is not).                     *)
(***************************************************************************)
EXTENDS Integers, Sequences, FiniteSets, TLC

VARIABLES store, handles, made, call, pre, prev, phase

vars == <<store, handles, made, call, pre, prev, phase>>

(***************************************************************************)
(* Bounds of the model.                                                    *)
(***************************************************************************)
\* largest raster width and height of the fixtures
MaxDim == 2

(***************************************************************************)
(* Rational arithmetic.                                                    *)
(***************************************************************************)
Abs(n) == IF n < 0 THEN -n ELSE n

RECURSIVE GCD(_, _)
GCD(a, b) == IF b = 0 THEN a ELSE GCD(b, a % b)

\* the rational n/d (d # 0) in lowest terms with a positive denominator
Rat(n, d) ==
    LET g == GCD(Abs(n), Abs(d))
        s == IF d < 0 THEN -1 ELSE 1
    IN  <<(s * n) \div g, (s * d) \div g>>

R(n) == <<n, 1>>
Zero == R(0)

RAdd(a, b) == Rat(a[1] * b[2] + b[1] * a[2], a[2] * b[2])
RSub(a, b) == Rat(a[1] * b[2] - b[1] * a[2], a[2] * b[2])
RMul(a, b) == Rat(a[1] * b[1], a[2] * b[2])
\* b # 0
RDiv(a, b) == Rat(a[1] * b[2], a[2] * b[1])
RLt(a, b) == a[1] * b[2] < b[1] * a[2]
RLe(a, b) == a[1] * b[2] <= b[1] * a[2]

\* conversion of a floating value to an integer: the fraction is dropped
Trunc(a) == IF a[1] >= 0 THEN a[1] \div a[2] ELSE -((-a[1]) \div a[2])

(***************************************************************************)
(* Element types (RasterType) and the conversion the store applies when a  *)
(* buffer of floating samples is written to a dataset of that type.        *)
(***************************************************************************)
RasterTypes == {"INT8U", "INT16U", "REAL32"}

\* a RasterType value the creating constructor has no case for
OtherType == "COMPLEX_REAL128"

TypeMax(t) == IF t = "INT8U" THEN 255 ELSE 65535

Clamp(n, lo, hi) == IF n < lo THEN lo ELSE IF n > hi THEN hi ELSE n

\* NATIVE_UINT8 / NATIVE_UINT16 datasets hold the truncated value clamped to
\* the range of the type; NATIVE_FLOAT datasets hold the value
Conv(t, v) ==
    IF t = "REAL32" THEN v ELSE R(Clamp(Trunc(v), 0, TypeMax(t)))

Representable(t, v) == Conv(t, v) = v

(***************************************************************************)
(* The store: store[name] is the dataset of that name, with the object     *)
(* type attribute (tag), the element type, the extent and the samples,     *)
(* data[<<x, y>>] for 0 <= x < nx, 0 <= y < ny.                            *)
(***************************************************************************)
RasterTag == "geostar::raster"

Cells(nx, ny) == (0 .. nx - 1) \X (0 .. ny - 1)

NewRaster(t, nx, ny) ==
    [tag |-> RasterTag, dtype |-> t, nx |-> nx, ny |-> ny,
     data |-> [c \in Cells(nx, ny) |-> Zero]]

get_nx(ras) == ras.nx

get_ny(ras) == ras.ny

\* the cells the hyperslab of slice s = <<x0, y0, dx, dy>> selects
SliceCells(s) == {c \in (s[1] .. s[1] + s[3] - 1) \X (s[2] .. s[2] + s[4] - 1) : TRUE}

\* the store accepts a hyperslab only inside the extent of the dataset
InExtent(ras, s) ==
    \/ s[3] = 0
    \/ s[4] = 0
    \/ /\ s[1] >= 0
       /\ s[2] >= 0
       /\ s[3] > 0
       /\ s[4] > 0
       /\ s[1] + s[3] <= ras.nx
       /\ s[2] + s[4] <= ras.ny

\* position in the buffer (1-based) of cell c of slice s: row-major, stride dx
BufIndexMut(s, c) == (c[1] - s[1]) * s[4] + (c[2] - s[2]) + 1

BufIndex(s, c) == (c[2] - s[2]) * s[3] + (c[1] - s[1]) + 1

\* Raster::write: [err, ras], the dataset after the call
HWriteMut(ras, s, buffer) ==
    IF Len(s) < 4 THEN [err |-> "SliceSizeError", ras |-> ras]
    ELSE IF ~InExtent(ras, s) THEN [err |-> "H5Error", ras |-> ras]
    ELSE [err |-> "ok",
          ras |-> [ras EXCEPT !.data =
                     [c \in DOMAIN ras.data |->
                        IF c \in SliceCells(s) /\ BufIndex(s, c) <= Len(buffer)
                        THEN Conv(ras.dtype, buffer[BufIndex(s, c)])
                        ELSE ras.data[c]]]]

HWrite(ras, s, buffer) ==
    IF Len(s) < 4 THEN [err |-> "SliceSizeError", ras |-> ras]
    ELSE IF Len(buffer) < s[3] * s[4] THEN [err |-> "SliceSizeError", ras |-> ras]
    ELSE IF ~InExtent(ras, s) THEN [err |-> "H5Error", ras |-> ras]
    ELSE [err |-> "ok",
          ras |-> [ras EXCEPT !.data =
                     [c \in DOMAIN ras.data |->
                        IF c \in SliceCells(s)
                        THEN Conv(ras.dtype, buffer[BufIndex(s, c)])
                        ELSE ras.data[c]]]]

\* Raster::read: [err, buf], the caller's buffer after the call
HReadMut(ras, s, buffer) ==
    IF Len(s) < 4 THEN [err |-> "SliceSizeError", buf |-> buffer]
    ELSE
      LET totalSize == s[3] * s[4]
          len == IF Len(buffer) < totalSize THEN totalSize ELSE Len(buffer)
      IN  IF ~InExtent(ras, s) THEN [err |-> "H5Error", buf |-> buffer]
          ELSE [err |-> "ok",
                buf |-> [k \in 1 .. len |->
                           IF k <= totalSize
                           THEN ras.data[<<s[1] + ((k - 1) \div s[4]), s[2] + ((k - 1) % s[4])>>]
                           ELSE Zero]]

HRead(ras, s, buffer) ==
    IF Len(s) < 4 THEN [err |-> "SliceSizeError", buf |-> buffer]
    ELSE
      LET totalSize == s[3] * s[4]
          len == IF Len(buffer) < totalSize THEN totalSize ELSE Len(buffer)
          resized == [k \in 1 .. len |-> IF k <= Len(buffer) THEN buffer[k] ELSE Zero]
      IN  IF ~InExtent(ras, s) THEN [err |-> "H5Error", buf |-> resized]
          ELSE [err |-> "ok",
                buf |-> [k \in 1 .. len |->
                           IF k <= totalSize
                           THEN ras.data[<<s[1] + ((k - 1) % s[3]), s[2] + ((k - 1) \div s[3])>>]
                           ELSE resized[k]]]

(***************************************************************************)
(* Raster objects.  handles holds one record per live Raster object: the   *)
(* name of its dataset and its raster_datatype member, which only the      *)
(* creating constructor sets.  made[name] is <<nx, ny>> as passed to the    *)
(* constructor that created the dataset.                                   *)
(***************************************************************************)
Handle(name, dtype) == [name |-> name, dtype |-> dtype]

\* raster_datatype of an object made by the opening constructor
Indeterminate == "indeterminate"

OpenNames == {h.name : h \in handles}

(***************************************************************************)
(* Calls.  call records the last operation, its arguments and its outcome  *)
(* (err = "ok" or the exception thrown, ret = the buffer handed back);     *)
(* pre is the store before it, prev the call before it.                    *)
(***************************************************************************)
Call(op, ras, out, slice, buf, val, val2, err, ret) ==
    [op |-> op, ras |-> ras, out |-> out, slice |-> slice, buf |-> buf,
     val |-> val, val2 |-> val2, err |-> err, ret |-> ret]

NoCall == Call("none", "", "", <<>>, <<>>, Zero, Zero, "ok", <<>>)

\* the operation ends: the store, the record of the call, the next phase
Finish(st, c) ==
    /\ store' = st
    /\ pre' = store
    /\ prev' = call
    /\ call' = c
    /\ phase' = phase + 1

(***************************************************************************)
(* Inputs of the fixtures: sample values, buffers, slices.                 *)
(***************************************************************************)
FixtureVals == <<R(0), R(1), <<5, 2>>, R(300)>>

NVals == Len(FixtureVals)

\* a buffer of n samples that differ from one position to the next
Ramp(start, n) == [k \in 1 .. n |-> FixtureVals[((start + k - 1) % NVals) + 1]]

\* a raster as create-then-write leaves it
FilledRaster(t, nx, ny, start) ==
    HWrite(NewRaster(t, nx, ny), <<0, 0, nx, ny>>, Ramp(start, nx * ny)).ras

Dims == 1 .. MaxDim

\* slices <<x0, y0, dx, dy>>: inside the raster, overhanging it, at negative offsets
Slices == (-1 .. MaxDim - 1) \X (-1 .. MaxDim - 1) \X Dims \X Dims

\* a slice vector with fewer than four fields
ShortSlice == <<0, 0, 1>>

Area(s) == s[3] * s[4]

\* buffers offered to write for slice s: the right size, one short, one long
WriteBuffers(s) ==
    {Ramp(start, Area(s)) : start \in 0 .. NVals - 1}
      \cup {Ramp(0, Area(s) - 1), Ramp(1, Area(s) + 1)}

\* buffers offered to read: empty, or an already long vector
ReadBuffers == {<<>>, [k \in 1 .. MaxDim * MaxDim + 1 |-> R(7)]}

(***************************************************************************)
(* Slice I/O on an open raster.                                            *)
(***************************************************************************)
Write(r, s, buffer) ==
    /\ r \in OpenNames
    /\ LET w == HWrite(store[r], s, buffer)
       IN  Finish([store EXCEPT ![r] = w.ras],
                  Call("write", r, "", s, buffer, Zero, Zero, w.err, <<>>))
    /\ UNCHANGED <<handles, made>>

Read(r, s, buffer) ==
    /\ r \in OpenNames
    /\ LET rd == HRead(store[r], s, buffer)
       IN  Finish(store, Call("read", r, "", s, buffer, Zero, Zero, rd.err, rd.buf))
    /\ UNCHANGED <<handles, made>>

(***************************************************************************)
(* Raster::thresh: in place, one row at a time.                            *)
(***************************************************************************)
ThreshPixelMut(v, value) == IF RLe(v, value) THEN Zero ELSE v

ThreshPixel(v, value) == IF RLt(v, value) THEN Zero ELSE v

RECURSIVE ThreshFrom(_, _, _)
ThreshFrom(ras, line, value) ==
    IF line >= get_ny(ras) THEN ras
    ELSE
      LET slice == <<0, line, get_nx(ras), 1>>
          data == HRead(ras, slice, [k \in 1 .. get_nx(ras) |-> Zero]).buf
          out == [k \in 1 .. Len(data) |-> ThreshPixel(data[k], value)]
      IN  ThreshFrom(HWrite(ras, slice, out).ras, line + 1, value)

Thresh(r, value) ==
    /\ r \in OpenNames
    /\ Finish([store EXCEPT ![r] = ThreshFrom(store[r], 0, value)],
              Call("thresh", r, "", <<>>, <<>>, value, Zero, "ok", <<>>))
    /\ UNCHANGED <<handles, made>>


(***************************************************************************)
(* Raster::scale: writes to another, existing raster, one row at a time.   *)
(***************************************************************************)
IntMax == 2147483647

IntMin == -IntMax - 1

\* the numerator of the product m*d fits in an int, so the product does; where it
\* does not, the inputs of the model have denominator 1 and the product is out
\* of the range of int
FitsInt(m, d) == m[1] = 0 \/ Abs(d[1]) <= IntMax \div Abs(m[1])

\* int i = mult*(indata[pixel]-offset): the value truncated; outside the range
\* of int the conversion is undefined, ub is what the build then yields
ToInt(mult, d, ub) == IF FitsInt(mult, d) THEN Trunc(RMul(mult, d)) ELSE ub

ScalePixelMut(v, offset, mult, ub) ==
    R(ToInt(mult, RSub(v, offset), ub))

ScalePixel(v, offset, mult, ub) ==
    LET i == ToInt(mult, RSub(v, offset), ub)
    IN  IF i < 0 THEN Zero ELSE R(i)

\* [err, st]: the rows from line on; a failing write ends the loop
RECURSIVE ScaleFrom(_, _, _, _, _, _, _)
ScaleFrom(st, r, out, line, offset, mult, ub) ==
    IF line >= get_ny(st[r]) THEN [err |-> "ok", st |-> st]
    ELSE
      LET nx == get_nx(st[r])
          slice == <<0, line, nx, 1>>
          indata == HRead(st[r], slice, [k \in 1 .. nx |-> Zero]).buf
          outdata == [k \in 1 .. nx |-> ScalePixel(indata[k], offset, mult, ub)]
          w == HWrite(st[out], slice, outdata)
      IN  IF w.err # "ok" THEN [err |-> w.err, st |-> st]
          ELSE ScaleFrom([st EXCEPT ![out] = w.ras], r, out, line + 1, offset, mult, ub)

Scale(r, out, offset, mult, ub) ==
    /\ r \in OpenNames
    /\ out \in OpenNames
    /\ LET res == ScaleFrom(store, r, out, 0, offset, mult, ub)
       IN  Finish(res.st, Call("scale", r, out, <<>>, <<>>, offset, mult, res.err, <<>>))
    /\ UNCHANGED <<handles, made>>

(***************************************************************************)
(* Raster::set: fills a slice with one value.                              *)
(***************************************************************************)
\* the slice passes the checks of set: only the far edges are compared
SetFits(ras, s) ==
    /\ ~(get_nx(ras) < s[1] + s[3])
    /\ ~(get_ny(ras) < s[2] + s[4])

HSetMut(ras, s, value) ==
    IF ~SetFits(ras, s) THEN [err |-> "SliceSizeError", ras |-> ras]
    ELSE HWrite(ras, s, [k \in 1 .. s[3] * s[4] |-> IF k <= s[3] THEN R(value) ELSE Zero])

HSet(ras, s, value) ==
    IF ~SetFits(ras, s) THEN [err |-> "SliceSizeError", ras |-> ras]
    ELSE HWrite(ras, s, [k \in 1 .. s[3] * s[4] |-> R(value)])

Set(r, s, value) ==
    /\ r \in OpenNames
    /\ LET w == HSet(store[r], s, value)
       IN  Finish([store EXCEPT ![r] = w.ras],
                  Call("set", r, "", s, <<>>, R(value), Zero, w.err, <<>>))
    /\ UNCHANGED <<handles, made>>

(***************************************************************************)
(* Slice I/O and pixel operations on a prepared image: rasters "a" and "b" *)
(* of equal extent, already written, then one operation on "a", then a     *)
(* read of the slice just written.                                         *)
(***************************************************************************)
ThreshValues == {R(1), R(2), <<601, 2>>}

ScaleArgs == {<<R(0), R(1)>>, <<R(1), <<3, 2>>>>, <<R(2), R(-1)>>, <<R(0), R(10000000)>>}

SetValues == {1, 900}

InitIO ==
    /\ \E t \in RasterTypes, tb \in {"INT8U", "REAL32"}, nx \in Dims, ny \in Dims,
          start \in 0 .. NVals - 1 :
          store = [n \in {"a", "b"} |->
                     IF n = "a" THEN FilledRaster(t, nx, ny, start)
                     ELSE FilledRaster(tb, nx, ny, 1)]
    /\ handles = {Handle(n, store[n].dtype) : n \in {"a", "b"}}
    /\ made = [n \in {"a", "b"} |-> <<store[n].nx, store[n].ny>>]
    /\ call = NoCall
    /\ prev = NoCall
    /\ pre = store
    /\ phase = 0

ReadBack ==
    /\ phase = 1
    /\ call.op \in {"write", "set"}
    /\ call.err = "ok"
    /\ \E buffer \in ReadBuffers : Read(call.ras, call.slice, buffer)

IOWrite ==
    /\ phase = 0
    /\ \/ \E s \in Slices : \E buffer \in WriteBuffers(s) : Write("a", s, buffer)
       \/ Write("a", ShortSlice, Ramp(0, 1))

IORead ==
    /\ phase = 0
    /\ \E s \in Slices \cup {ShortSlice} : \E buffer \in ReadBuffers : Read("a", s, buffer)

IOThresh ==
    /\ phase = 0
    /\ \E v \in ThreshValues : Thresh("a", v)

IOScale ==
    /\ phase = 0
    /\ \E out \in {"a", "b"}, args \in ScaleArgs, ub \in {IntMin, IntMax} :
          Scale("a", out, args[1], args[2], ub)

IOSet ==
    /\ phase = 0
    /\ \E s \in Slices, v \in SetValues : Set("a", s, v)

NextIO ==
    \/ IOWrite
    \/ IORead
    \/ IOThresh
    \/ IOScale
    \/ IOSet
    \/ ReadBack

SpecIO == InitIO /\ [][NextIO]_vars

(***************************************************************************)
(* Properties of slice I/O and the pixel operations (SpecIO).              *)
(***************************************************************************)
\* a slice of four fields, not empty, inside the raster
ValidSlice(ras, s) ==
    /\ Len(s) = 4
    /\ s[3] > 0
    /\ s[4] > 0
    /\ s[1] >= 0
    /\ s[2] >= 0
    /\ s[1] + s[3] <= ras.nx
    /\ s[2] + s[4] <= ras.ny

\* every raster but r is as it was before the call
OthersUnchanged(r) ==
    /\ DOMAIN store = DOMAIN pre
    /\ \A n \in DOMAIN store \ {r} : store[n] = pre[n]

SameExtent(r) ==
    /\ store[r].nx = pre[r].nx
    /\ store[r].ny = pre[r].ny
    /\ store[r].dtype = pre[r].dtype
    /\ DOMAIN store[r].data = DOMAIN pre[r].data

AllRepresentable(t, buffer) == \A k \in 1 .. Len(buffer) : Representable(t, buffer[k])

\* a write of a buffer of exactly dx*dy samples to a valid slice, then a read of
\* the same slice of the same raster
WriteThenRead ==
    /\ call.op = "read"
    /\ prev.op = "write"
    /\ call.err = "ok"
    /\ prev.err = "ok"
    /\ call.ras = prev.ras
    /\ call.slice = prev.slice
    /\ ValidSlice(store[call.ras], call.slice)
    /\ Len(prev.buf) = Area(prev.slice)

\* C1 as stated: write(S,B) then read(S,B') on the same raster gives B' equal to
\* B element by element, for every raster and every buffer.
C1_RoundTripAnyBuffer ==
    WriteThenRead => \A k \in 1 .. Len(prev.buf) : call.ret[k] = prev.buf[k]

\* C1 amended: write(S,B) then read(S,B') on the same raster gives B' equal to B
\* element by element, provided every element of B is representable in the
\* element type of the raster.
C1_RoundTrip ==
    (WriteThenRead /\ AllRepresentable(store[call.ras].dtype, prev.buf))
      => \A k \in 1 .. Len(prev.buf) : call.ret[k] = prev.buf[k]

C1_Witness ==
    /\ WriteThenRead
    /\ AllRepresentable(store[call.ras].dtype, prev.buf)
    /\ call.slice[3] = 2
    /\ call.slice[4] = 2
    /\ call.slice[1] = 0
    /\ prev.buf[1] # prev.buf[2]
    /\ prev.buf[2] # prev.buf[3]

WroteValid ==
    /\ call.op = "write"
    /\ call.err = "ok"
    /\ ValidSlice(pre[call.ras], call.slice)

\* C2 as stated: after write(S,B) sample (x0+i, y0+j) equals B[j*w+i], every
\* sample outside S and every other raster is unchanged.
C2_WriteStoresBuffer ==
    WroteValid =>
      LET r == call.ras
          s == call.slice
      IN  /\ SameExtent(r)
          /\ OthersUnchanged(r)
          /\ \A c \in DOMAIN store[r].data :
                IF c \in SliceCells(s)
                THEN store[r].data[c] = call.buf[(c[2] - s[2]) * s[3] + (c[1] - s[1]) + 1]
                ELSE store[r].data[c] = pre[r].data[c]

\* C2 amended: after write(S,B) sample (x0+i, y0+j) equals B[j*w+i] wherever
\* B[j*w+i] is representable in the element type of the raster; every sample
\* outside S and every other raster is unchanged.
C2_WriteRowMajor ==
    WroteValid =>
      LET r == call.ras
          s == call.slice
      IN  /\ SameExtent(r)
          /\ OthersUnchanged(r)
          /\ \A c \in DOMAIN store[r].data :
                IF c \in SliceCells(s)
                THEN LET b == call.buf[(c[2] - s[2]) * s[3] + (c[1] - s[1]) + 1]
                     IN  Representable(store[r].dtype, b) => store[r].data[c] = b
                ELSE store[r].data[c] = pre[r].data[c]

C2_Witness ==
    /\ WroteValid
    /\ store[call.ras].dtype = "REAL32"
    /\ call.slice = <<0, 0, 2, 2>>
    /\ call.buf = Ramp(0, 4)
    /\ store[call.ras].data[<<1, 0>>] = R(1)
    /\ store[call.ras].data[<<0, 1>>] = <<5, 2>>

\* C3: read and write throw SliceSizeError for a slice of fewer than 4 fields,
\* write throws SliceSizeError for a buffer shorter than dx*dy, and in each of
\* these cases no sample of any raster has changed.
C3_SliceSizeErrors ==
    /\ (call.op \in {"read", "write"} /\ Len(call.slice) < 4)
          => (call.err = "SliceSizeError" /\ store = pre)
    /\ (call.op = "write" /\ Len(call.slice) = 4 /\ Len(call.buf) < Area(call.slice))
          => (call.err = "SliceSizeError" /\ store = pre)

C3_Witness ==
    /\ call.op = "write"
    /\ Len(call.slice) = 4
    /\ ValidSlice(pre[call.ras], call.slice)
    /\ Len(call.buf) = Area(call.slice) - 1
    /\ Len(call.buf) > 0
    /\ call.err = "SliceSizeError"

\* C6: after thresh(v) every sample is 0 if it was below v and is unchanged
\* otherwise; the extent of the raster and all other rasters are unchanged.
C6_Thresh ==
    call.op = "thresh" =>
      LET r == call.ras
      IN  /\ call.err = "ok"
          /\ SameExtent(r)
          /\ OthersUnchanged(r)
          /\ \A c \in DOMAIN store[r].data :
                store[r].data[c] =
                  IF RLt(pre[r].data[c], call.val) THEN Zero ELSE pre[r].data[c]

C6_Witness ==
    /\ call.op = "thresh"
    /\ store[call.ras].nx = 2
    /\ store[call.ras].ny = 2
    /\ \E c \in DOMAIN store[call.ras].data :
          pre[call.ras].data[c] # Zero /\ store[call.ras].data[c] = Zero
    /\ \E c \in DOMAIN store[call.ras].data :
          pre[call.ras].data[c] = call.val /\ store[call.ras].data[c] = call.val


\* a pair no sample equals: stands for a value beyond the range of int
Beyond == <<1, 0>>

\* max(0, trunc(mult*(v-offset))) as a number
ScaledValue(v, offset, mult) ==
    LET d == RSub(v, offset)
    IN  IF FitsInt(mult, d)
        THEN (IF Trunc(RMul(mult, d)) < 0 THEN Zero ELSE R(Trunc(RMul(mult, d))))
        ELSE (IF (mult[1] < 0) = (d[1] < 0) THEN Beyond ELSE Zero)

Scaled ==
    /\ call.op = "scale"
    /\ call.err = "ok"
    /\ pre[call.out].nx = pre[call.ras].nx
    /\ pre[call.out].ny = pre[call.ras].ny

NotContained(ras, s) ==
    \/ s[1] < 0
    \/ s[2] < 0
    \/ s[1] + s[3] > ras.nx
    \/ s[2] + s[4] > ras.ny

\* C8: set(slice, value) throws SliceSizeError whenever the slice is not wholly
\* inside the raster (x0<0, y0<0, x0+w>nx or y0+h>ny), and then no sample of the
\* raster is modified.
C8_SetOutsideIsSliceSizeError ==
    (call.op = "set" /\ NotContained(pre[call.ras], call.slice))
      => (call.err = "SliceSizeError" /\ store = pre)

\* C9 as stated: for a slice inside the raster, after set(slice, value) every
\* sample inside the slice equals value, every sample outside keeps its value,
\* and a following read of the slice returns w*h samples all equal to value.
C9_SetAnyValue ==
    /\ (call.op = "set" /\ ValidSlice(pre[call.ras], call.slice)) =>
          /\ call.err = "ok"
          /\ \A c \in DOMAIN store[call.ras].data :
                store[call.ras].data[c] =
                  IF c \in SliceCells(call.slice) THEN call.val ELSE pre[call.ras].data[c]
    /\ (call.op = "read" /\ prev.op = "set" /\ ValidSlice(store[call.ras], call.slice)) =>
          /\ call.err = "ok"
          /\ \A k \in 1 .. Area(call.slice) : call.ret[k] = prev.val

\* C9 amended: for a slice inside the raster and a value representable in the
\* element type of the raster, after set(slice, value) every sample inside the
\* slice equals value, every sample outside keeps its value, every other raster
\* is unchanged, and a following read of the slice returns w*h samples all equal
\* to value.
C9_Set ==
    /\ (/\ call.op = "set"
        /\ ValidSlice(pre[call.ras], call.slice)
        /\ Representable(pre[call.ras].dtype, call.val)) =>
          /\ call.err = "ok"
          /\ SameExtent(call.ras)
          /\ OthersUnchanged(call.ras)
          /\ \A c \in DOMAIN store[call.ras].data :
                store[call.ras].data[c] =
                  IF c \in SliceCells(call.slice) THEN call.val ELSE pre[call.ras].data[c]
    /\ (/\ call.op = "read"
        /\ prev.op = "set"
        /\ ValidSlice(store[call.ras], call.slice)
        /\ Representable(store[call.ras].dtype, prev.val)) =>
          /\ call.err = "ok"
          /\ Len(call.ret) >= Area(call.slice)
          /\ \A k \in 1 .. Area(call.slice) : call.ret[k] = prev.val

C9_Witness ==
    /\ call.op = "read"
    /\ prev.op = "set"
    /\ prev.val = R(900)
    /\ call.slice = <<0, 1, 2, 1>>
    /\ store[call.ras].dtype = "INT16U"
    /\ call.ret = <<R(900), R(900)>>
    /\ store[call.ras].data[<<0, 0>>] = <<300, 1>>


(***************************************************************************)
(* The two constructors, the destructor and the object-type attribute.     *)
(***************************************************************************)
\* the image gains one dataset
Extend(st, name, ras) == [n \in DOMAIN st \cup {name} |-> IF n = name THEN ras ELSE st[n]]

\* a constructor that creates the dataset before it looks at the element type
CreateRasterMut(st, name, type, nx, ny) ==
    IF name \in DOMAIN st THEN [err |-> "RasterExists", st |-> st]
    ELSE IF type \notin RasterTypes
         THEN [err |-> "RasterCreationError", st |-> Extend(st, name, NewRaster("INT8U", nx, ny))]
    ELSE [err |-> "ok", st |-> Extend(st, name, NewRaster(type, nx, ny))]

\* Raster(image, name, type, nx, ny)
CreateRaster(st, name, type, nx, ny) ==
    IF name \in DOMAIN st THEN [err |-> "RasterExists", st |-> st]
    ELSE IF type \notin RasterTypes THEN [err |-> "RasterCreationError", st |-> st]
    ELSE [err |-> "ok", st |-> Extend(st, name, NewRaster(type, nx, ny))]

\* Raster(image, name)
OpenRaster(st, name) ==
    IF name \notin DOMAIN st THEN "RasterDoesNotExist"
    ELSE IF st[name].tag # RasterTag THEN "RasterOpenError"
    ELSE "ok"

Create(name, type, nx, ny) ==
    LET c == CreateRaster(store, name, type, nx, ny)
    IN  /\ Finish(c.st, Call("create", name, "", <<nx, ny>>, <<type>>, Zero, Zero, c.err, <<>>))
        /\ handles' = IF c.err = "ok" THEN handles \cup {Handle(name, type)} ELSE handles
        /\ made' = IF c.err = "ok" THEN Extend(made, name, <<nx, ny>>) ELSE made

Open(name) ==
    LET err == OpenRaster(store, name)
    IN  /\ Finish(store, Call("open", name, "", <<>>, <<>>, Zero, Zero, err, <<>>))
        /\ handles' = IF err = "ok" THEN handles \cup {Handle(name, Indeterminate)} ELSE handles
        /\ UNCHANGED made

\* ~Raster()
Release(h) ==
    /\ h \in handles
    /\ Finish(store, Call("release", h.name, "", <<>>, <<>>, Zero, Zero, "ok", <<>>))
    /\ handles' = handles \ {h}
    /\ UNCHANGED made

\* write_object_type(value)
WriteObjectType(h, value) ==
    /\ h \in handles
    /\ Finish([store EXCEPT ![h.name].tag = value],
              Call("write_object_type", h.name, "", <<>>, <<value>>, Zero, Zero, "ok", <<>>))
    /\ UNCHANGED <<handles, made>>

\* get_nx(), get_ny()
GetDims(h) ==
    /\ h \in handles
    /\ Finish(store, Call("get_dims", h.name, "", <<>>, <<>>, Zero, Zero, "ok",
                          <<get_nx(store[h.name]), get_ny(store[h.name])>>))
    /\ UNCHANGED <<handles, made>>

(***************************************************************************)
(* Raster::downsample and Raster::gaussianPyramid.                         *)
(***************************************************************************)
mKernel == 400

gaussianKernel ==
    <<<<1, 4, 6, 4, 1>>, <<4, 16, 24, 16, 4>>, <<6, 24, 36, 24, 6>>,
      <<4, 16, 24, 16, 4>>, <<1, 4, 6, 4, 1>>>>

\* temp += data[j] * gaussianKernel[mFlipped][nFlipped] over the double loop on
\* m and n, entries k .. 24; the sample is p/q and temp counts in units of
\* 1/(q * mKernel)
RECURSIVE Accumulate(_, _, _)
Accumulate(p, k, temp) ==
    IF k >= 25 THEN temp
    ELSE
      LET mFlipped == 5 - 1 - (k \div 5)
          nFlipped == 5 - 1 - (k % 5)
      IN  Accumulate(p, k + 1, temp + p * gaussianKernel[mFlipped + 1][nFlipped + 1])

ConvolvePixel(v) == Rat(Accumulate(v[1], 0, 0), v[2] * mKernel)

\* the rows left as they are
ConvolveFromMut(ras, i) == ras

\* the first loop of downsample: every row of this raster convolved in place
RECURSIVE ConvolveFrom(_, _)
ConvolveFrom(ras, i) ==
    IF i >= get_ny(ras) THEN ras
    ELSE
      LET nx == get_nx(ras)
          slice == <<0, i, nx, 1>>
          data == HRead(ras, slice, [k \in 1 .. nx |-> Zero]).buf
          conv == [k \in 1 .. nx |-> ConvolvePixel(data[k])]
      IN  ConvolveFrom(HWrite(ras, slice, conv).ras, i + 1)

\* the second loop keeping the samples j = 0, 2, ... of the rows
RECURSIVE DecimateFromMut(_, _, _, _, _)
DecimateFromMut(st, src, out, i, outIndexSlice) ==
    IF i >= get_ny(st[src]) THEN [err |-> "ok", st |-> st]
    ELSE
      LET nx == get_nx(st[src])
          nx_out == get_nx(st[out])
          data == HRead(st[src], <<0, i, nx, 1>>, [k \in 1 .. nx |-> Zero]).buf
          dataOut == [k \in 1 .. nx_out |-> IF 2 * k <= nx THEN data[2 * k - 1] ELSE Zero]
          w == HWrite(st[out], <<0, outIndexSlice, nx_out, 1>>, dataOut)
      IN  IF w.err # "ok" THEN [err |-> w.err, st |-> st]
          ELSE DecimateFromMut([st EXCEPT ![out] = w.ras], src, out, i + 2, outIndexSlice + 1)

\* the second loop of downsample: rows i = 1, 3, ... and of each the samples
\* j = 1, 3, ... go to row outIndexSlice of rasOut
RECURSIVE DecimateFrom(_, _, _, _, _)
DecimateFrom(st, src, out, i, outIndexSlice) ==
    IF i >= get_ny(st[src]) THEN [err |-> "ok", st |-> st]
    ELSE
      LET nx == get_nx(st[src])
          nx_out == get_nx(st[out])
          data == HRead(st[src], <<0, i, nx, 1>>, [k \in 1 .. nx |-> Zero]).buf
          dataOut == [k \in 1 .. nx_out |-> IF 2 * k <= nx THEN data[2 * k] ELSE Zero]
          w == HWrite(st[out], <<0, outIndexSlice, nx_out, 1>>, dataOut)
      IN  IF w.err # "ok" THEN [err |-> w.err, st |-> st]
          ELSE DecimateFrom([st EXCEPT ![out] = w.ras], src, out, i + 2, outIndexSlice + 1)

\* this->downsample(rasOut): [err, st]
Downsample(st, src, out) ==
    IF get_nx(st[src]) \div 2 # get_nx(st[out]) THEN [err |-> "RasterSizeError", st |-> st]
    ELSE IF get_ny(st[src]) \div 2 # get_ny(st[out]) THEN [err |-> "RasterSizeError", st |-> st]
    ELSE DecimateFrom([st EXCEPT ![src] = ConvolveFrom(st[src], 0)], src, out, 1, 0)

RECURSIVE Pow2(_)
Pow2(i) == IF i = 0 THEN 1 ELSE 2 * Pow2(i - 1)

\* "GPyramid" + to_string(i)
GPyramidName(i) == "GPyramid" \o ToString(i)

\* the quotient rounded up
LevelDimMut(n, i) == (n + Pow2(i) - 1) \div Pow2(i)

\* nx / pow(2, i) passed as const int &
LevelDim(n, i) == n \div Pow2(i)

\* levels i .. n of gaussianPyramid; acc = [err, st, new], new the list of
\* <<name, nx, ny>> handed to the constructor so far.  output has n elements,
\* so storing output[n] writes past its end: ub is what then happens, the
\* call carrying on ("ok") or the process ending there ("crash")
RECURSIVE GaussianLevels(_, _, _, _, _, _, _)
GaussianLevels(acc, src, i, n, nx, ny, ub) ==
    IF i > n THEN acc
    ELSE
      LET name == GPyramidName(i)
          w == LevelDim(nx, i)
          h == LevelDim(ny, i)
          c == CreateRaster(acc.st, name, "REAL32", w, h)
          new == Append(acc.new, <<name, w, h>>)
      IN  IF c.err # "ok" THEN [acc EXCEPT !.err = c.err]
          ELSE IF i = n /\ ub = "crash" THEN [err |-> "crash", st |-> c.st, new |-> new]
          ELSE LET d == Downsample(c.st, src, name)
               IN  IF d.err # "ok" THEN [err |-> d.err, st |-> d.st, new |-> new]
                   ELSE GaussianLevels([err |-> "ok", st |-> d.st, new |-> new],
                                       name, i + 1, n, nx, ny, ub)

\* the handles and the creation arguments after the constructor calls in new
RECURSIVE Constructed(_, _)
Constructed(hs, new) ==
    IF new = <<>> THEN hs
    ELSE Constructed(hs \cup {Handle(new[1][1], "REAL32")}, Tail(new))

RECURSIVE Requested(_, _)
Requested(md, new) ==
    IF new = <<>> THEN md
    ELSE Requested(Extend(md, new[1][1], <<new[1][2], new[1][3]>>), Tail(new))

\* this->gaussianPyramid(img, n); ret is the vector handed back, n elements
GaussianPyramid(h, n, ub) ==
    /\ h \in handles
    /\ LET start == [err |-> "ok", st |-> store, new |-> <<>>]
           res == IF n < 1 THEN [start EXCEPT !.err = "IntegerParameterError"]
                  ELSE GaussianLevels(start, h.name, 1, n,
                                      get_nx(store[h.name]), get_ny(store[h.name]), ub)
           output == [k \in 1 .. n |-> IF k = 1 THEN h.name ELSE GPyramidName(k - 1)]
       IN  /\ Finish(res.st, Call("gaussianPyramid", h.name, "", <<n>>, <<>>, Zero, Zero, res.err,
                                  IF res.err = "ok" THEN output ELSE <<>>))
           /\ handles' = IF res.err = "crash" THEN {} ELSE Constructed(handles, res.new)
           /\ made' = Requested(made, res.new)

(***************************************************************************)
(* Rasters made, released, retagged and opened again in an empty image.    *)
(***************************************************************************)
MaxOps == 3

Names == {"a", "b"}

CtorTypes == {"INT8U", "REAL32", OtherType}

\* <<nx, ny>> as passed to the constructor
CtorExtents == {<<0, 1>>, <<1, 0>>} \cup {<<d, d>> : d \in 1 .. MaxDim}

ObjectTypes == {RasterTag, "blah"}

InitCtor ==
    /\ store = [n \in {} |-> NewRaster("INT8U", 0, 0)]
    /\ handles = {}
    /\ made = [n \in {} |-> <<0, 0>>]
    /\ call = NoCall
    /\ prev = NoCall
    /\ pre = store
    /\ phase = 0

CtorCreate ==
    /\ phase < MaxOps
    /\ \E name \in Names, type \in CtorTypes, e \in CtorExtents :
          Create(name, type, e[1], e[2])

CtorOpen ==
    /\ phase < MaxOps
    /\ \E name \in Names : Open(name)

CtorRelease ==
    /\ phase < MaxOps
    /\ \E h \in handles : Release(h)

CtorRetag ==
    /\ phase < MaxOps
    /\ \E h \in handles, value \in ObjectTypes : WriteObjectType(h, value)

CtorGetDims ==
    /\ phase < MaxOps
    /\ \E h \in handles : GetDims(h)

NextCtor ==
    \/ CtorCreate
    \/ CtorOpen
    \/ CtorRelease
    \/ CtorRetag
    \/ CtorGetDims

SpecCtor == InitCtor /\ [][NextCtor]_vars


(***************************************************************************)
(* Raster::upsample and Raster::laplacianPyramid.                          *)
(***************************************************************************)
\* dataOut[outIndexData] = data[j]; outIndexData += 2, held at nx_out: the
\* samples j .. nx-1 of one row
RECURSIVE SpreadRow(_, _, _, _, _, _)
SpreadRow(dataOut, data, j, outIndexData, nx, nx_out) ==
    IF j >= nx THEN dataOut
    ELSE
      LET next == IF outIndexData + 2 > nx_out THEN nx_out ELSE outIndexData + 2
      IN  SpreadRow([dataOut EXCEPT ![outIndexData + 1] = data[j + 1]],
                    data, j + 1, next, nx, nx_out)

\* the first loop of upsample, rows i .. ny-1 of this: acc = [err, st, dataOut]
RECURSIVE SpreadFrom(_, _, _, _, _)
SpreadFrom(acc, src, out, i, outIndexSlice) ==
    IF acc.err # "ok" \/ i >= get_ny(acc.st[src]) THEN acc
    ELSE
      LET nx == get_nx(acc.st[src])
          nx_out == get_nx(acc.st[out])
          ny_out == get_ny(acc.st[out])
          data == HRead(acc.st[src], <<0, i, nx, 1>>, [k \in 1 .. nx |-> Zero]).buf
          dataOut == SpreadRow(acc.dataOut, data, 0, 1, nx, nx_out)
          w == HWrite(acc.st[out], <<0, outIndexSlice, nx_out, 1>>, dataOut)
          next == IF outIndexSlice + 2 > ny_out THEN ny_out ELSE outIndexSlice + 2
      IN  SpreadFrom([err |-> w.err,
                      st |-> IF w.err = "ok" THEN [acc.st EXCEPT ![out] = w.ras] ELSE acc.st,
                      dataOut |-> dataOut],
                     src, out, i + 1, next)

\* the inner loop of the second pass: j = 1, 3, ... of one row of rasOut
RECURSIVE SmoothRow(_, _, _)
SmoothRow(dataOut, j, nx_out) ==
    IF j >= nx_out THEN dataOut
    ELSE
      LET temp == ConvolvePixel(dataOut[j + 1])
      IN  SmoothRow([k \in 1 .. Len(dataOut) |->
                       IF k = j + 1 THEN temp
                       ELSE IF j = 1 /\ k = 1 THEN temp
                       ELSE IF j + 1 < nx_out /\ k = j + 2 THEN temp
                       ELSE dataOut[k]],
                    j + 2, nx_out)

\* the rows s of rasOut written with one buffer, in the order given
RECURSIVE WriteRows(_, _, _, _)
WriteRows(acc, out, rows, dataOut) ==
    IF acc.err # "ok" \/ rows = <<>> THEN acc
    ELSE
      LET w == HWrite(acc.st[out], <<0, rows[1], get_nx(acc.st[out]), 1>>, dataOut)
      IN  WriteRows([err |-> w.err,
                     st |-> IF w.err = "ok" THEN [acc.st EXCEPT ![out] = w.ras] ELSE acc.st],
                    out, Tail(rows), dataOut)

\* the second loop writing row i only
RECURSIVE SmoothFromMut(_, _, _, _)
SmoothFromMut(acc, out, i, dataOut) ==
    IF acc.err # "ok" \/ i >= get_ny(acc.st[out]) THEN acc
    ELSE
      LET nx_out == get_nx(acc.st[out])
          ny_out == get_ny(acc.st[out])
          rd == HRead(acc.st[out], <<0, i, nx_out, 1>>, dataOut).buf
          smooth == SmoothRow(rd, 1, nx_out)
          rows == <<i>>
      IN  SmoothFromMut(WriteRows(acc, out, rows, smooth), out, i + 2, smooth)

\* the second loop of upsample, rows i = 1, 3, ... of rasOut: acc = [err, st]
RECURSIVE SmoothFrom(_, _, _, _)
SmoothFrom(acc, out, i, dataOut) ==
    IF acc.err # "ok" \/ i >= get_ny(acc.st[out]) THEN acc
    ELSE
      LET nx_out == get_nx(acc.st[out])
          ny_out == get_ny(acc.st[out])
          rd == HRead(acc.st[out], <<0, i, nx_out, 1>>, dataOut).buf
          smooth == SmoothRow(rd, 1, nx_out)
          rows == <<i>> \o (IF i = 1 THEN <<0>> ELSE <<>>)
                        \o (IF i + 1 < ny_out THEN <<i + 1>> ELSE <<>>)
      IN  SmoothFrom(WriteRows(acc, out, rows, smooth), out, i + 2, smooth)

\* this->upsample(rasOut): [err, st]
Upsample(st, src, out) ==
    IF get_nx(st[src]) * 2 # get_nx(st[out]) THEN [err |-> "RasterSizeError", st |-> st]
    ELSE IF get_ny(st[src]) * 2 # get_ny(st[out]) THEN [err |-> "RasterSizeError", st |-> st]
    ELSE
      LET first == SpreadFrom([err |-> "ok", st |-> st,
                               dataOut |-> [k \in 1 .. get_nx(st[out]) |-> Zero]],
                              src, out, 0, 1)
      IN  SmoothFrom([err |-> first.err, st |-> first.st], out, 1, first.dataOut)

\* "LPyramid" + to_string(i)
LPyramidName(i) == "LPyramid" \o ToString(i)

\* levels i .. n of laplacianPyramid, as GaussianLevels
RECURSIVE LaplacianLevels(_, _, _, _, _, _, _)
LaplacianLevels(acc, src, i, n, nx, ny, ub) ==
    IF i > n THEN acc
    ELSE
      LET name == LPyramidName(i)
          w == nx * Pow2(i)
          h == ny * Pow2(i)
          c == CreateRaster(acc.st, name, "REAL32", w, h)
          new == Append(acc.new, <<name, w, h>>)
      IN  IF c.err # "ok" THEN [acc EXCEPT !.err = c.err]
          ELSE IF i = n /\ ub = "crash" THEN [err |-> "crash", st |-> c.st, new |-> new]
          ELSE LET u == Upsample(c.st, src, name)
               IN  IF u.err # "ok" THEN [err |-> u.err, st |-> u.st, new |-> new]
                   ELSE LaplacianLevels([err |-> "ok", st |-> u.st, new |-> new],
                                        name, i + 1, n, nx, ny, ub)

\* this->laplacianPyramid(img, n); ret is the vector handed back, n elements
LaplacianPyramid(h, n, ub) ==
    /\ h \in handles
    /\ LET start == [err |-> "ok", st |-> store, new |-> <<>>]
           res == IF n < 1 THEN [start EXCEPT !.err = "IntegerParameterError"]
                  ELSE LaplacianLevels(start, h.name, 1, n,
                                       get_nx(store[h.name]), get_ny(store[h.name]), ub)
           output == [k \in 1 .. n |-> IF k = 1 THEN h.name ELSE LPyramidName(k - 1)]
       IN  /\ Finish(res.st, Call("laplacianPyramid", h.name, "", <<n>>, <<>>, Zero, Zero, res.err,
                                  IF res.err = "ok" THEN output ELSE <<>>))
           /\ handles' = IF res.err = "crash" THEN {} ELSE Constructed(handles, res.new)
           /\ made' = Requested(made, res.new)

(***************************************************************************)
(* Pyramids of a written raster "a", and its objects released and opened   *)
(* again: two operations on a prepared image.                              *)
(***************************************************************************)
MaxLevels == 2

PyrDims == 1 .. MaxDim + 2

InitPyr ==
    /\ \E t \in RasterTypes, nx \in PyrDims, ny \in PyrDims, start \in {0, 1} :
          store = [n \in {"a"} |-> FilledRaster(t, nx, ny, start)]
    /\ handles = {Handle("a", store["a"].dtype)}
    /\ made = [n \in {"a"} |-> <<store[n].nx, store[n].ny>>]
    /\ call = NoCall
    /\ prev = NoCall
    /\ pre = store
    /\ phase = 0

\* gaussianPyramid, of a raster no laplacianPyramid has just built
PyrGaussian ==
    /\ phase < 2
    /\ call.op # "laplacianPyramid"
    /\ \E h \in handles, n \in 0 .. MaxLevels, ub \in {"ok", "crash"} : GaussianPyramid(h, n, ub)

\* laplacianPyramid as the first operation, on the rasters of up to MaxDim by
\* MaxDim samples
PyrLaplacian ==
    /\ phase = 0
    /\ \E h \in handles, n \in 0 .. MaxLevels, ub \in {"ok", "crash"} :
          /\ get_nx(store[h.name]) <= MaxDim
          /\ get_ny(store[h.name]) <= MaxDim
          /\ LaplacianPyramid(h, n, ub)

PyrOpen ==
    /\ phase < 2
    /\ \E name \in DOMAIN store \cup {"b"} : Open(name)

PyrRelease ==
    /\ phase < 2
    /\ \E h \in handles : Release(h)

PyrGetDims ==
    /\ phase < 2
    /\ \E h \in handles : GetDims(h)

NextPyr ==
    \/ PyrGaussian
    \/ PyrLaplacian
    \/ PyrOpen
    \/ PyrRelease
    \/ PyrGetDims

SpecPyr == InitPyr /\ [][NextPyr]_vars


C5_DimsPositiveAndFixed ==
    /\ \A n \in DOMAIN store :
          /\ get_nx(store[n]) > 0
          /\ get_ny(store[n]) > 0
          /\ <<get_nx(store[n]), get_ny(store[n])>> = made[n]
    /\ call.op = "get_dims" => call.ret = made[call.ras]


(***************************************************************************)
(* Raster::add, subtract, multiply, divide: this op r2 into ras_out, one   *)
(* row at a time through two float buffers.                                *)
(***************************************************************************)
ArithOps == {"add", "subtract", "multiply", "divide"}

\* a divide that leaves bufferA[j] alone where bufferB[j] is 0
ArithPixelMut(op, a, b) ==
    CASE op = "add" -> RAdd(a, b)
      [] op = "subtract" -> RSub(a, b)
      [] op = "multiply" -> RMul(a, b)
      [] op = "divide" -> IF b = Zero THEN a ELSE RDiv(a, b)

\* bufferA[j] after the inner loop
ArithPixel(op, a, b) ==
    CASE op = "add" -> RAdd(a, b)
      [] op = "subtract" -> RSub(a, b)
      [] op = "multiply" -> RMul(a, b)
      [] op = "divide" -> IF b = Zero THEN R(255) ELSE RDiv(a, b)

\* [err, st]: the rows from i on; a failing read or write ends the loop
RECURSIVE ArithFrom(_, _, _, _, _, _)
ArithFrom(st, op, r, r2, ras_out, i) ==
    IF i >= get_ny(st[r]) THEN [err |-> "ok", st |-> st]
    ELSE
      LET nx == get_nx(st[r])
          slice == <<0, i, nx, 1>>
          bufferA == HRead(st[r], slice, [k \in 1 .. nx |-> Zero])
          bufferB == HRead(st[r2], slice, [k \in 1 .. nx |-> Zero])
          result == [k \in 1 .. nx |-> ArithPixel(op, bufferA.buf[k], bufferB.buf[k])]
          w == HWrite(st[ras_out], slice, result)
      IN  IF bufferA.err # "ok" THEN [err |-> bufferA.err, st |-> st]
          ELSE IF bufferB.err # "ok" THEN [err |-> bufferB.err, st |-> st]
          ELSE IF w.err # "ok" THEN [err |-> w.err, st |-> st]
          ELSE ArithFrom([st EXCEPT ![ras_out] = w.ras], op, r, r2, ras_out, i + 1)

\* a size test that fires only when both dimensions differ
ArithMut(st, op, r, r2, ras_out) ==
    IF get_nx(st[r]) # get_nx(st[r2]) /\ get_ny(st[r]) # get_ny(st[r2])
    THEN [err |-> "RasterSizeError", st |-> st]
    ELSE ArithFrom(st, op, r, r2, ras_out, 0)

\* this->add(r2, ras_out) and its three siblings: [err, st]
Arith(st, op, r, r2, ras_out) ==
    IF get_nx(st[r]) # get_nx(st[r2]) \/ get_ny(st[r]) # get_ny(st[r2])
    THEN [err |-> "RasterSizeError", st |-> st]
    ELSE ArithFrom(st, op, r, r2, ras_out, 0)

\* the call record of an arithmetic method holds r2 in buf
Other(c) == c.buf[1]

ArithCall(op, r, r2, ras_out) ==
    /\ {r, r2, ras_out} \subseteq OpenNames
    /\ LET res == Arith(store, op, r, r2, ras_out)
       IN  Finish(res.st, Call(op, r, ras_out, <<>>, <<r2>>, Zero, Zero, res.err, <<>>))
    /\ UNCHANGED <<handles, made>>

(***************************************************************************)
(* Arithmetic on a prepared image: rasters "a" and "c" of one extent, "b"  *)
(* of that extent or of one sample, all written; one call.                 *)
(***************************************************************************)
ArithNames == {"a", "b", "c"}

InitArith ==
    /\ \E ta \in RasterTypes, tb \in {"INT8U", "REAL32"}, tc \in {"INT8U", "REAL32"},
          nx \in Dims, ny \in Dims, start \in 0 .. NVals - 1, startb \in {0, 1} :
       \E eb \in {<<nx, ny>>, <<1, 1>>} :
          store = [n \in ArithNames |->
                     CASE n = "a" -> FilledRaster(ta, nx, ny, start)
                       [] n = "b" -> FilledRaster(tb, eb[1], eb[2], startb)
                       [] n = "c" -> FilledRaster(tc, nx, ny, 3)]
    /\ handles = {Handle(n, store[n].dtype) : n \in ArithNames}
    /\ made = [n \in ArithNames |-> <<store[n].nx, store[n].ny>>]
    /\ call = NoCall
    /\ prev = NoCall
    /\ pre = store
    /\ phase = 0

ArithAdd ==
    /\ phase = 0
    /\ \E r \in ArithNames, r2 \in ArithNames, ras_out \in ArithNames :
          ArithCall("add", r, r2, ras_out)

ArithSubtract ==
    /\ phase = 0
    /\ \E r \in ArithNames, r2 \in ArithNames, ras_out \in ArithNames :
          ArithCall("subtract", r, r2, ras_out)

ArithMultiply ==
    /\ phase = 0
    /\ \E r \in ArithNames, r2 \in ArithNames, ras_out \in ArithNames :
          ArithCall("multiply", r, r2, ras_out)

ArithDivide ==
    /\ phase = 0
    /\ \E r \in ArithNames, r2 \in ArithNames, ras_out \in ArithNames :
          ArithCall("divide", r, r2, ras_out)

NextArith ==
    \/ ArithAdd
    \/ ArithSubtract
    \/ ArithMultiply
    \/ ArithDivide

SpecArith == InitArith /\ [][NextArith]_vars

(***************************************************************************)
(* Properties of the arithmetic methods (SpecArith).                       *)
(***************************************************************************)
\* an arithmetic method has returned, on three rasters of equal dimensions
ArithDone ==
    /\ call.op \in ArithOps
    /\ call.err = "ok"
    /\ get_nx(pre[call.ras]) = get_nx(pre[Other(call)])
    /\ get_ny(pre[call.ras]) = get_ny(pre[Other(call)])
    /\ get_nx(pre[call.ras]) = get_nx(pre[call.out])
    /\ get_ny(pre[call.ras]) = get_ny(pre[call.out])

\* this(x,y) op other(x,y) on the samples before the call, 255 for a divide by 0
Elementwise(op, c) ==
    LET a == pre[call.ras].data[c]
        b == pre[Other(call)].data[c]
    IN  CASE op = "add" -> RAdd(a, b)
          [] op = "subtract" -> RSub(a, b)
          [] op = "multiply" -> RMul(a, b)
          [] op = "divide" -> IF b = Zero THEN R(255) ELSE RDiv(a, b)

\* C10 as stated: after add, subtract, multiply or divide on rasters of equal
\* dimensions every sample of output is this op other (255 where divide meets
\* a divisor 0), and every raster but output is unchanged.
C10_ElementwiseExact ==
    ArithDone =>
       /\ \A c \in DOMAIN store[call.out].data :
             store[call.out].data[c] = Elementwise(call.op, c)
       /\ OthersUnchanged(call.out)

\* C10, amended: every sample of output is this op other (255 where divide
\* meets a divisor 0) converted to the element type of output, so equal to it
\* whenever it is representable in that type; the dimensions and type of
\* output stay, and every raster but output is unchanged.
C10_Elementwise ==
    ArithDone =>
       /\ \A c \in DOMAIN store[call.out].data :
             LET v == Elementwise(call.op, c)
             IN  /\ store[call.out].data[c] = Conv(pre[call.out].dtype, v)
                 /\ Representable(pre[call.out].dtype, v) => store[call.out].data[c] = v
       /\ SameExtent(call.out)
       /\ OthersUnchanged(call.out)

\* a divide into a third raster met a divisor 0 and a divisor that is not 0,
\* and stored 255 and the quotient where output held something else
C10_Witness ==
    /\ ArithDone
    /\ call.op = "divide"
    /\ Cardinality({call.ras, Other(call), call.out}) = 3
    /\ \E c \in DOMAIN store[call.out].data :
          /\ pre[Other(call)].data[c] = Zero
          /\ store[call.out].data[c] = R(255)
          /\ pre[call.out].data[c] # R(255)
    /\ \E c \in DOMAIN store[call.out].data :
          /\ pre[Other(call)].data[c] # Zero
          /\ store[call.out].data[c] = RDiv(pre[call.ras].data[c], pre[Other(call)].data[c])
          /\ store[call.out].data[c] # pre[call.out].data[c]


\* the dimensions of other differ from those of this
ArithMismatch ==
    /\ call.op \in ArithOps
    /\ <<get_nx(pre[call.ras]), get_ny(pre[call.ras])>> #
          <<get_nx(pre[Other(call)]), get_ny(pre[Other(call)])>>

\* C11: add, subtract, multiply and divide raise RasterSizeError whenever the
\* dimensions of other differ from those of this, and no sample of any raster
\* has been written when the error is raised.
C11_SizeErrorBeforeWrite ==
    ArithMismatch => (call.err = "RasterSizeError" /\ store = pre)

\* other differs from this in height only, and the call has failed
C11_Witness ==
    /\ ArithMismatch
    /\ get_nx(pre[call.ras]) = get_nx(pre[Other(call)])
    /\ call.err = "RasterSizeError"
    /\ store = pre


(***************************************************************************)
(* The operator forms: raster op raster and raster op scalar.  Each asks   *)
(* getParent() for the image, constructs the result raster there and then  *)
(* fills it.                                                               *)
(***************************************************************************)
\* the middle of the result's name
Infix(op) ==
    CASE op = "add" -> "_PLUS_"
      [] op = "subtract" -> "_MINUS_"
      [] op = "multiply" -> "_TIMES_"
      [] op = "divide" -> "_DIVIDEDBY_"

\* rastername + "_PLUS_" + r2.rastername, rastername + "_PLUS_val"
ResultName(op, r, operand) == r \o Infix(op) \o operand

\* the values raster_datatype can hold when the result is constructed: the
\* type given to the creating constructor, or, in an object made by the
\* opening constructor, whatever the uninitialised member holds
DatatypeValues(h) ==
    IF h.dtype = Indeterminate THEN RasterTypes \cup {OtherType} ELSE {h.dtype}

\* operator+(const Raster &) and its siblings, after getParent: [err, st, name]
RasterOperator(st, op, r, r2, type) ==
    LET name == ResultName(op, r, r2)
        c == CreateRaster(st, name, type, get_nx(st[r]), get_ny(st[r]))
    IN  IF c.err # "ok" THEN [err |-> c.err, st |-> st, name |-> name]
        ELSE LET a == Arith(c.st, op, r, r2, name)
             IN  [err |-> a.err, st |-> a.st, name |-> name]

\* buffer[j] op= val
ScalarPixel(op, a, val) ==
    CASE op = "add" -> RAdd(a, val)
      [] op = "subtract" -> RSub(a, val)
      [] op = "multiply" -> RMul(a, val)
      [] op = "divide" -> RDiv(a, val)

\* [err, st]: the rows from i on
RECURSIVE ScalarFrom(_, _, _, _, _, _)
ScalarFrom(st, op, r, r2, val, i) ==
    IF i >= get_ny(st[r]) THEN [err |-> "ok", st |-> st]
    ELSE
      LET nx == get_nx(st[r])
          slice == <<0, i, nx, 1>>
          buffer == HRead(st[r], slice, [k \in 1 .. nx |-> Zero])
          result == [k \in 1 .. nx |-> ScalarPixel(op, buffer.buf[k], val)]
          w == HWrite(st[r2], slice, result)
      IN  IF buffer.err # "ok" THEN [err |-> buffer.err, st |-> st]
          ELSE IF w.err # "ok" THEN [err |-> w.err, st |-> st]
          ELSE ScalarFrom([st EXCEPT ![r2] = w.ras], op, r, r2, val, i + 1)

\* operator+(const float &) and its siblings, after getParent: [err, st, name]
ScalarOperator(st, op, r, val, type) ==
    LET name == ResultName(op, r, "val")
        c == CreateRaster(st, name, type, get_nx(st[r]), get_ny(st[r]))
    IN  IF c.err # "ok" THEN [err |-> c.err, st |-> st, name |-> name]
        ELSE IF op = "divide" /\ val = Zero
             THEN [err |-> "DivideByZeroError", st |-> c.st, name |-> name]
        ELSE LET s == ScalarFrom(c.st, op, r, name, val, 0)
             IN  [err |-> s.err, st |-> s.st, name |-> name]

\* the record of an operator call: form is the arithmetic, operand a raster
\* name or <<>> for a scalar, dtype the raster_datatype member of this
OperatorCall(op, h, operand, val, res) ==
    Call("operator", h.name, res.name, <<>>, operand, val, Zero, res.err,
         IF res.err = "ok" THEN <<res.name>> ELSE <<>>)
       @@ [form |-> op, dtype |-> h.dtype]

\* getParent() copies the object's path of len characters and its terminator
\* into char buffer[len]: gp is what the write past the end leads to, the call
\* carrying on ("ok") or the process ending there ("crash")
OperatorEnd(op, h, operand, val, res, type, gp) ==
    IF gp = "crash"
    THEN /\ Finish(store, OperatorCall(op, h, operand, val,
                                       [err |-> "crash", st |-> store, name |-> res.name]))
         /\ handles' = {}
         /\ UNCHANGED made
    ELSE /\ Finish(res.st, OperatorCall(op, h, operand, val, res))
         /\ handles' = IF res.err = "ok" THEN handles \cup {Handle(res.name, type)} ELSE handles
         /\ made' = IF res.name \in DOMAIN res.st /\ res.name \notin DOMAIN store
                    THEN Extend(made, res.name, <<get_nx(store[h.name]), get_ny(store[h.name])>>)
                    ELSE made

\* *h op *h2
OperatorOnRaster(op, h, h2, type, gp) ==
    /\ h \in handles
    /\ h2 \in handles
    /\ type \in DatatypeValues(h)
    /\ OperatorEnd(op, h, <<h2.name>>, Zero,
                   RasterOperator(store, op, h.name, h2.name, type), type, gp)

\* *h op val
OperatorOnScalar(op, h, val, type, gp) ==
    /\ h \in handles
    /\ type \in DatatypeValues(h)
    /\ OperatorEnd(op, h, <<>>, val, ScalarOperator(store, op, h.name, val, type), type, gp)


(***************************************************************************)
(* Operator forms on a prepared image: rasters "a" and "b", written; the   *)
(* object for "a" made by either constructor; one operator call, then the  *)
(* same form on the same operands once more.                               *)
(***************************************************************************)
OpsScalars == {Zero, R(2), <<1, 2>>}

InitOps ==
    /\ \E ta \in {"INT8U", "REAL32"}, tb \in {"INT8U", "REAL32"},
          nx \in Dims, ny \in Dims, start \in {0, 1} :
       \E eb \in {<<nx, ny>>, <<1, 1>>} :
          store = [n \in {"a", "b"} |->
                     IF n = "a" THEN FilledRaster(ta, nx, ny, start)
                     ELSE FilledRaster(tb, eb[1], eb[2], 1)]
    /\ \E da \in {store["a"].dtype, Indeterminate} :
          handles = {Handle("a", da), Handle("b", store["b"].dtype)}
    /\ made = [n \in {"a", "b"} |-> <<store[n].nx, store[n].ny>>]
    /\ call = NoCall
    /\ prev = NoCall
    /\ pre = store
    /\ phase = 0

OpsRaster ==
    /\ phase = 0
    /\ \E op \in ArithOps, h \in handles, h2 \in handles,
          type \in RasterTypes \cup {OtherType}, gp \in {"ok", "crash"} :
          OperatorOnRaster(op, h, h2, type, gp)

OpsScalar ==
    /\ phase = 0
    /\ \E op \in ArithOps, h \in handles, val \in OpsScalars,
          type \in RasterTypes \cup {OtherType}, gp \in {"ok", "crash"} :
          OperatorOnScalar(op, h, val, type, gp)

\* the same form applied again to rasters of the same names
OpsRepeat ==
    /\ phase = 1
    /\ call.op = "operator"
    /\ call.err # "crash"
    /\ \E h \in handles, type \in RasterTypes \cup {OtherType}, gp \in {"ok", "crash"} :
          /\ h.name = call.ras
          /\ IF call.buf = <<>>
             THEN \E val \in OpsScalars : OperatorOnScalar(call.form, h, val, type, gp)
             ELSE \E h2 \in handles :
                     /\ h2.name = call.buf[1]
                     /\ OperatorOnRaster(call.form, h, h2, type, gp)

NextOps ==
    \/ OpsRaster
    \/ OpsScalar
    \/ OpsRepeat

SpecOps == InitOps /\ [][NextOps]_vars


(***************************************************************************)
(* Properties of the operator forms (SpecOps).                             *)
(***************************************************************************)
ScalarForm == call.op = "operator" /\ call.buf = <<>>

RasterForm == call.op = "operator" /\ call.buf # <<>>

\* C12: raster / val with val exactly zero raises DivideByZeroError (where the
\* result could be constructed at all), and when an operator form fails with
\* DivideByZeroError or with RasterSizeError nothing has been mutated: the
\* store holds no new raster and no sample has been written.
C12_OperatorFailsBeforeMutation ==
    /\ (ScalarForm /\ call.form = "divide" /\ call.val = Zero
          /\ call.err \notin {"crash", "RasterExists", "RasterCreationError"}) =>
          call.err = "DivideByZeroError"
    /\ (call.op = "operator" /\ call.err \in {"DivideByZeroError", "RasterSizeError"}) =>
          store = pre

\* this op operand at cell c, on the samples before the call
OperatorValue(c) ==
    IF call.buf = <<>> THEN ScalarPixel(call.form, pre[call.ras].data[c], call.val)
    ELSE Elementwise(call.form, c)

\* a first application of an operator form that the operands allow: the
\* result's name is free, raster operands have equal dimensions, a scalar
\* divisor is not zero, every result is representable in the element type of
\* this, and getParent has returned
OperatorApplies ==
    /\ call.op = "operator"
    /\ call.err # "crash"
    /\ call.out \notin DOMAIN pre
    /\ RasterForm =>
          /\ get_nx(pre[call.ras]) = get_nx(pre[Other(call)])
          /\ get_ny(pre[call.ras]) = get_ny(pre[Other(call)])
    /\ ScalarForm => ~(call.form = "divide" /\ call.val = Zero)
    /\ \A c \in DOMAIN pre[call.ras].data :
          Representable(pre[call.ras].dtype, OperatorValue(c))

\* C13: an operator form returns a newly created raster of the store with the
\* dimensions and element type of this whose every sample is this op operand,
\* and leaves both operands unchanged, whichever constructor made this.
C13_OperatorResult ==
    OperatorApplies =>
       /\ call.err = "ok"
       /\ call.ret = <<call.out>>
       /\ call.out \in DOMAIN store
       /\ get_nx(store[call.out]) = get_nx(pre[call.ras])
       /\ get_ny(store[call.out]) = get_ny(pre[call.ras])
       /\ store[call.out].dtype = pre[call.ras].dtype
       /\ \A c \in DOMAIN pre[call.ras].data : store[call.out].data[c] = OperatorValue(c)
       /\ \A n \in DOMAIN pre : store[n] = pre[n]


(***************************************************************************)
(* Raster::autoLocalThresh: partitions x partitions sectors, each read     *)
(* twice row by row, once for min and max, once to threshold and write.    *)
(***************************************************************************)
\* if (data[j] < min) min = data[j]; if (data[j] > max) max = data[j], for the
\* samples j .. n-1 of one row; mm = [min, max]
RECURSIVE MinMaxRow(_, _, _, _)
MinMaxRow(data, j, n, mm) ==
    IF j >= n THEN mm
    ELSE MinMaxRow(data, j + 1, n,
                   [min |-> IF RLt(data[j + 1], mm.min) THEN data[j + 1] ELSE mm.min,
                    max |-> IF RLt(mm.max, data[j + 1]) THEN data[j + 1] ELSE mm.max])

\* the first pass over a sector at <<x0, y0>>, rows i .. sy-1
RECURSIVE SectorMinMax(_, _, _, _, _, _, _)
SectorMinMax(ras, x0, y0, sx, sy, i, mm) ==
    IF i >= sy THEN mm
    ELSE
      LET data == HRead(ras, <<x0, i + y0, sx, 1>>, <<>>).buf
      IN  SectorMinMax(ras, x0, y0, sx, sy, i + 1, MinMaxRow(data, 0, sx, mm))

\* the second pass, rows p .. sy-1: [err, st]
RECURSIVE SectorThresh(_, _, _, _, _, _, _, _, _)
SectorThresh(st, r, out, x0, y0, sx, sy, p, threshhold) ==
    IF p >= sy THEN [err |-> "ok", st |-> st]
    ELSE
      LET slice == <<x0, p + y0, sx, 1>>
          data == HRead(st[r], slice, <<>>).buf
          res == [q \in 1 .. Len(data) |->
                    IF q <= sx /\ RLt(data[q], threshhold) THEN Zero ELSE data[q]]
          w == HWrite(st[out], slice, res)
      IN  IF w.err # "ok" THEN [err |-> w.err, st |-> st]
          ELSE SectorThresh([st EXCEPT ![out] = w.ras], r, out, x0, y0, sx, sy, p + 1, threshhold)

\* sectors k .. partitions^2 - 1 in the order of the loops on y and x
RECURSIVE SectorsFrom(_, _, _, _, _, _, _)
SectorsFrom(st, r, out, partitions, sx, sy, k) ==
    IF k >= partitions * partitions THEN [err |-> "ok", st |-> st]
    ELSE
      LET x == k % partitions
          y == k \div partitions
          mm == SectorMinMax(st[r], x * sx, y * sy, sx, sy, 0, [min |-> R(100000), max |-> Zero])
          threshhold == RDiv(RAdd(mm.max, mm.min), R(3))
          s == SectorThresh(st, r, out, x * sx, y * sy, sx, sy, 0, threshhold)
      IN  IF s.err # "ok" THEN s
          ELSE SectorsFrom(s.st, r, out, partitions, sx, sy, k + 1)

\* this->autoLocalThresh(rasterOut, partitions): [err, st]
AutoLocalThresh(st, r, out, partitions) ==
    IF get_nx(st[r]) # get_nx(st[out]) THEN [err |-> "RasterSizeError", st |-> st]
    ELSE IF get_ny(st[r]) # get_ny(st[out]) THEN [err |-> "RasterSizeError", st |-> st]
    ELSE IF partitions <= 0 THEN [err |-> "PartitionError", st |-> st]
    ELSE IF partitions > 150 THEN [err |-> "PartitionError", st |-> st]
    ELSE SectorsFrom(st, r, out, partitions,
                     get_nx(st[r]) \div partitions, get_ny(st[r]) \div partitions, 0)

(***************************************************************************)
(* Raster::harmonicMean, midpointFilter, rangeFilter: n x n tiles, each    *)
(* read row by row for its statistic, then row by row again to write it.   *)
(***************************************************************************)
\* temp += 1.0 / data[xSmall] for the samples xSmall .. n-1 of one row;
\* acc = [inf, sum]: a sample 0 makes the sum infinite (a raster of the
\* fixtures that holds a 0 holds no sample below zero)
RECURSIVE ReciprocalRow(_, _, _, _)
ReciprocalRow(data, xSmall, n, acc) ==
    IF xSmall >= n THEN acc
    ELSE ReciprocalRow(data, xSmall + 1, n,
                       IF data[xSmall + 1] = Zero THEN [acc EXCEPT !.inf = TRUE]
                       ELSE [acc EXCEPT !.sum = RAdd(acc.sum, RDiv(R(1), data[xSmall + 1]))])

RECURSIVE ReciprocalSum(_, _, _, _, _, _)
ReciprocalSum(ras, x0, y0, n, ySmall, acc) ==
    IF ySmall >= n THEN acc
    ELSE
      LET data == HRead(ras, <<x0, y0 + ySmall, n, 1>>, [k \in 1 .. n |-> Zero]).buf
      IN  ReciprocalSum(ras, x0, y0, n, ySmall + 1, ReciprocalRow(data, 0, n, acc))

\* temp = (n * n) / temp
HarmonicValue(ras, x0, y0, n) ==
    LET temp == ReciprocalSum(ras, x0, y0, n, 0, [inf |-> FALSE, sum |-> Zero])
    IN  IF temp.inf THEN Zero ELSE RDiv(R(n * n), temp.sum)

\* if (data[xSmall] < min) min = ...; else if (data[xSmall] > max) max = ...
RECURSIVE LocalRow(_, _, _, _)
LocalRow(data, xSmall, n, mm) ==
    IF xSmall >= n THEN mm
    ELSE LocalRow(data, xSmall + 1, n,
                  IF RLt(data[xSmall + 1], mm.min) THEN [mm EXCEPT !.min = data[xSmall + 1]]
                  ELSE IF RLt(mm.max, data[xSmall + 1]) THEN [mm EXCEPT !.max = data[xSmall + 1]]
                  ELSE mm)

\* the first pass of midpointFilter and rangeFilter: every row starts with
\* min = data[0]; max = data[0]
RECURSIVE LocalMinMax(_, _, _, _, _, _)
LocalMinMax(ras, x0, y0, n, ySmall, mm) ==
    IF ySmall >= n THEN mm
    ELSE
      LET data == HRead(ras, <<x0, y0 + ySmall, n, 1>>, [k \in 1 .. n |-> Zero]).buf
      IN  LocalMinMax(ras, x0, y0, n, ySmall + 1,
                      LocalRow(data, 0, n, [min |-> data[1], max |-> data[1]]))

RegionKinds == {"harmonicMean", "midpointFilter", "rangeFilter"}

\* the value written to the tile at <<x0, y0>>
RegionValue(kind, ras, x0, y0, n) ==
    IF kind = "harmonicMean" THEN HarmonicValue(ras, x0, y0, n)
    ELSE LET mm == LocalMinMax(ras, x0, y0, n, 0, [min |-> Zero, max |-> Zero])
         IN  IF kind = "midpointFilter" THEN RDiv(RAdd(mm.min, mm.max), R(2))
             ELSE RSub(mm.max, mm.min)

\* the second pass leaving the last sample of every row of the tile as read
RECURSIVE RegionWriteMut(_, _, _, _, _, _, _, _)
RegionWriteMut(st, r, out, x0, y0, n, ySmall, value) ==
    IF ySmall >= n THEN [err |-> "ok", st |-> st]
    ELSE
      LET slice == <<x0, y0 + ySmall, n, 1>>
          data == HRead(st[r], slice, [k \in 1 .. n |-> Zero]).buf
          w == HWrite(st[out], slice, [k \in 1 .. Len(data) |-> IF k < n THEN value ELSE data[k]])
      IN  IF w.err # "ok" THEN [err |-> w.err, st |-> st]
          ELSE RegionWriteMut([st EXCEPT ![out] = w.ras], r, out, x0, y0, n, ySmall + 1, value)

\* the second pass, rows ySmall .. n-1: [err, st]
RECURSIVE RegionWrite(_, _, _, _, _, _, _, _)
RegionWrite(st, r, out, x0, y0, n, ySmall, value) ==
    IF ySmall >= n THEN [err |-> "ok", st |-> st]
    ELSE
      LET slice == <<x0, y0 + ySmall, n, 1>>
          data == HRead(st[r], slice, [k \in 1 .. n |-> Zero]).buf
          w == HWrite(st[out], slice, [k \in 1 .. Len(data) |-> IF k <= n THEN value ELSE data[k]])
      IN  IF w.err # "ok" THEN [err |-> w.err, st |-> st]
          ELSE RegionWrite([st EXCEPT ![out] = w.ras], r, out, x0, y0, n, ySmall + 1, value)

\* tiles k .. numRegionsX * numRegionsY - 1 in the order of the loops on y and x
RECURSIVE RegionsFrom(_, _, _, _, _, _)
RegionsFrom(st, kind, r, out, n, k) ==
    LET numRegionsX == get_nx(st[r]) \div n
        numRegionsY == get_ny(st[r]) \div n
    IN  IF k >= numRegionsX * numRegionsY THEN [err |-> "ok", st |-> st]
        ELSE
          LET x == k % numRegionsX
              y == k \div numRegionsX
              w == RegionWrite(st, r, out, x * n, y * n, n, 0,
                               RegionValue(kind, st[r], x * n, y * n, n))
          IN  IF w.err # "ok" THEN w ELSE RegionsFrom(w.st, kind, r, out, n, k + 1)

\* this->harmonicMean(rasOut, n), midpointFilter, rangeFilter: [err, st]
RegionFilter(st, kind, r, out, n) ==
    IF n < 3 THEN [err |-> "IntegerParameterError", st |-> st]
    ELSE IF n > 11 THEN [err |-> "IntegerParameterError", st |-> st]
    ELSE IF n % 2 = 0 THEN [err |-> "IntegerParameterError", st |-> st]
    ELSE IF get_nx(st[r]) # get_nx(st[out]) THEN [err |-> "RasterSizeError", st |-> st]
    ELSE IF get_ny(st[r]) # get_ny(st[out]) THEN [err |-> "RasterSizeError", st |-> st]
    ELSE RegionsFrom(st, kind, r, out, n, 0)

(***************************************************************************)
(* Raster::gradientMask, bitShift, addSaltPepper: row by row into rasOut.  *)
(***************************************************************************)
\* blurKernel, in sixteenths
blurKernel == <<<<1, 2, 1>>, <<2, 8, 2>>, <<1, 2, 1>>>>

\* temp += data[j] * blurKernel[mFlipped][nFlipped], entries k .. 8; the sample
\* is p/q and temp counts in units of 1/(16 q)
RECURSIVE BlurAccumulate(_, _, _)
BlurAccumulate(p, k, temp) ==
    IF k >= 9 THEN temp
    ELSE
      LET mFlipped == 3 - 1 - (k \div 3)
          nFlipped == 3 - 1 - (k % 3)
      IN  BlurAccumulate(p, k + 1, temp + p * blurKernel[mFlipped + 1][nFlipped + 1])

BlurPixel(v) == Rat(BlurAccumulate(v[1], 0, 0), v[2] * 16)

\* data[j] *= inverse (direction) or data[j] *= pow(2, bits)
ShiftPixel(v, bits, direction) ==
    IF direction THEN RMul(v, Rat(1, Pow2(bits))) ELSE RMul(v, R(Pow2(bits)))

SaltValue == 15000

\* the draws compared strictly
SaltPixelMut(v, temp, low) ==
    LET high == RSub(R(1), low)
    IN  IF RLt(temp, low) THEN Zero
        ELSE IF RLt(high, temp) THEN R(SaltValue)
        ELSE v

\* the sample after its draw temp: 0 at or below low, 15000 at or above high
SaltPixel(v, temp, low) ==
    LET high == RSub(R(1), low)
    IN  IF RLe(temp, low) THEN Zero
        ELSE IF RLe(high, temp) THEN R(SaltValue)
        ELSE v

\* the k-th value of rand() / RAND_MAX in this call (k from 0)
Draw(draws, k) == draws[(k % Len(draws)) + 1]

\* what one of the three methods makes of sample j (from 0) of row i
RowPixel(op, v, i, j, nx, arg) ==
    CASE op = "gradientMask" -> BlurPixel(v)
      [] op = "bitShift" -> ShiftPixel(v, arg.bits, arg.direction)
      [] op = "addSaltPepper" -> SaltPixel(v, Draw(arg.draws, i * nx + j), arg.low)

\* [err, st]: the rows from i on
RECURSIVE RowsFrom(_, _, _, _, _, _)
RowsFrom(st, op, r, out, arg, i) ==
    IF i >= get_ny(st[r]) THEN [err |-> "ok", st |-> st]
    ELSE
      LET nx == get_nx(st[r])
          slice == <<0, i, nx, 1>>
          data == HRead(st[r], slice, [k \in 1 .. nx |-> Zero]).buf
          res == [k \in 1 .. nx |-> RowPixel(op, data[k], i, k - 1, nx, arg)]
          w == HWrite(st[out], slice, res)
      IN  IF w.err # "ok" THEN [err |-> w.err, st |-> st]
          ELSE RowsFrom([st EXCEPT ![out] = w.ras], op, r, out, arg, i + 1)

\* the size test the three methods share, then the rows
SizedRows(st, op, r, out, arg) ==
    IF get_nx(st[r]) # get_nx(st[out]) THEN [err |-> "RasterSizeError", st |-> st]
    ELSE IF get_ny(st[r]) # get_ny(st[out]) THEN [err |-> "RasterSizeError", st |-> st]
    ELSE RowsFrom(st, op, r, out, arg, 0)

\* this->gradientMask(rasOut, mask): [err, st]
GradientMask(st, r, out, mask) ==
    IF mask < 1 THEN [err |-> "IntegerParameterError", st |-> st]
    ELSE IF mask > 8 THEN [err |-> "IntegerParameterError", st |-> st]
    ELSE SizedRows(st, "gradientMask", r, out, [mask |-> mask])

\* bitShift testing the sizes before the number of bits
BitShiftMut(st, r, out, bits, direction) ==
    IF get_nx(st[r]) # get_nx(st[out]) THEN [err |-> "RasterSizeError", st |-> st]
    ELSE IF get_ny(st[r]) # get_ny(st[out]) THEN [err |-> "RasterSizeError", st |-> st]
    ELSE IF bits < 0 THEN [err |-> "BitError", st |-> st]
    ELSE RowsFrom(st, "bitShift", r, out, [bits |-> bits, direction |-> direction], 0)

\* this->bitShift(rasterOut, bits, direction): [err, st]
BitShift(st, r, out, bits, direction) ==
    IF bits < 0 THEN [err |-> "BitError", st |-> st]
    ELSE SizedRows(st, "bitShift", r, out, [bits |-> bits, direction |-> direction])

\* this->addSaltPepper(rasterOut, low), draws the values rand() hands out
AddSaltPepper(st, r, out, low, draws) ==
    IF RLt(low, Zero) \/ RLt(<<1, 2>>, low) THEN [err |-> "ProbabilityError", st |-> st]
    ELSE SizedRows(st, "addSaltPepper", r, out, [low |-> low, draws |-> draws])

\* a method of this with an output raster has ended: slice holds its integer
\* parameters, val its probability, buf the draws
FilterEnd(op, r, out, params, val, draws, res) ==
    /\ {r, out} \subseteq OpenNames
    /\ Finish(res.st, Call(op, r, out, params, draws, val, Zero, res.err, <<>>))
    /\ UNCHANGED <<handles, made>>

(***************************************************************************)
(* Filters on a prepared image: input "a" and output "b", written, "b" of  *)
(* the extent of "a" or of one sample; one call, into "b" or in place.     *)
(***************************************************************************)
FiltDims == 1 .. MaxDim + 2

PartitionArgs == {-1, 0, 1, 2, 3, 151}

WindowArgs == {1, 2, 3, 4, 5, 13}

MaskArgs == {0, 1, 8, 9}

BitArgs == {-1, 0, 1, 2}

LowArgs == {<<-1, 4>>, Zero, <<1, 4>>, <<1, 2>>, <<3, 4>>}

DrawValues == {Zero, <<1, 4>>, <<3, 4>>, R(1)}

LevelArgs == {-1, 0, 1}

\* samples below zero, for a REAL32 raster
NegativeVals == <<R(-300), <<-201, 2>>, R(-3)>>

NegativeRaster(nx, ny, start) ==
    HWrite(NewRaster("REAL32", nx, ny), <<0, 0, nx, ny>>,
           [k \in 1 .. nx * ny |-> NegativeVals[((start + k - 1) % Len(NegativeVals)) + 1]]).ras

InitFilt ==
    /\ \E ta \in RasterTypes \cup {"negative"}, tb \in {"INT8U", "REAL32"},
          nx \in FiltDims, ny \in FiltDims, start \in {0, 1, 2} :
       \E eb \in {<<nx, ny>>, <<1, 1>>} :
          store = [n \in {"a", "b"} |->
                     IF n = "a"
                     THEN IF ta = "negative" THEN NegativeRaster(nx, ny, start)
                          ELSE FilledRaster(ta, nx, ny, start)
                     ELSE FilledRaster(tb, eb[1], eb[2], 3)]
    /\ handles = {Handle(n, store[n].dtype) : n \in {"a", "b"}}
    /\ made = [n \in {"a", "b"} |-> <<store[n].nx, store[n].ny>>]
    /\ call = NoCall
    /\ prev = NoCall
    /\ pre = store
    /\ phase = 0

FiltAutoLocalThresh ==
    /\ phase = 0
    /\ \E out \in {"a", "b"}, partitions \in PartitionArgs :
          FilterEnd("autoLocalThresh", "a", out, <<partitions>>, Zero, <<>>,
                    AutoLocalThresh(store, "a", out, partitions))

FiltRegion ==
    /\ phase = 0
    /\ \E kind \in RegionKinds, out \in {"a", "b"}, n \in WindowArgs :
          FilterEnd(kind, "a", out, <<n>>, Zero, <<>>, RegionFilter(store, kind, "a", out, n))

FiltGradientMask ==
    /\ phase = 0
    /\ \E out \in {"a", "b"}, mask \in MaskArgs :
          FilterEnd("gradientMask", "a", out, <<mask>>, Zero, <<>>,
                    GradientMask(store, "a", out, mask))

FiltBitShift ==
    /\ phase = 0
    /\ \E out \in {"a", "b"}, bits \in BitArgs, direction \in BOOLEAN :
          FilterEnd("bitShift", "a", out, <<bits, IF direction THEN 1 ELSE 0>>, Zero, <<>>,
                    BitShift(store, "a", out, bits, direction))

FiltAddSaltPepper ==
    /\ phase = 0
    /\ \E out \in {"a", "b"}, low \in LowArgs, d1 \in DrawValues, d2 \in DrawValues :
          FilterEnd("addSaltPepper", "a", out, <<>>, low, <<d1, d2>>,
                    AddSaltPepper(store, "a", out, low, <<d1, d2>>))

FiltGaussianPyramid ==
    /\ phase = 0
    /\ \E h \in handles, n \in LevelArgs, ub \in {"ok", "crash"} : GaussianPyramid(h, n, ub)

FiltLaplacianPyramid ==
    /\ phase = 0
    /\ \E h \in handles, n \in LevelArgs, ub \in {"ok", "crash"} :
          /\ get_nx(store[h.name]) <= MaxDim
          /\ get_ny(store[h.name]) <= MaxDim
          /\ LaplacianPyramid(h, n, ub)

NextFilt ==
    \/ FiltAutoLocalThresh
    \/ FiltRegion
    \/ FiltGradientMask
    \/ FiltBitShift
    \/ FiltAddSaltPepper
    \/ FiltGaussianPyramid
    \/ FiltLaplacianPyramid

SpecFilt == InitFilt /\ [][NextFilt]_vars

\* the output raster of the call differs in extent from its input
OutputMismatch(c) ==
    /\ c.out \in DOMAIN pre
    /\ <<get_nx(pre[c.ras]), get_ny(pre[c.ras])>> # <<get_nx(pre[c.out]), get_ny(pre[c.out])>>

\* C14: autoLocalThresh(output, partitions) with partitions <= 0 or
\* partitions > 150 ends with PartitionError and has changed no raster,
\* whatever output raster it was given, one of another extent included.
C14_PartitionErrorFirst ==
    (call.op = "autoLocalThresh" /\ (call.slice[1] <= 0 \/ call.slice[1] > 150))
        => (call.err = "PartitionError" /\ store = pre)

\* the parameter error the call must end with, "" when its parameter is valid
ParameterError(c) ==
    CASE c.op \in RegionKinds ->
           IF c.slice[1] < 3 \/ c.slice[1] > 11 \/ c.slice[1] % 2 = 0
           THEN "IntegerParameterError" ELSE ""
      [] c.op = "gradientMask" ->
           IF c.slice[1] < 1 \/ c.slice[1] > 8 THEN "IntegerParameterError" ELSE ""
      [] c.op = "bitShift" -> IF c.slice[1] < 0 THEN "BitError" ELSE ""
      [] c.op = "addSaltPepper" ->
           IF RLt(c.val, Zero) \/ RLt(<<1, 2>>, c.val) THEN "ProbabilityError" ELSE ""
      [] c.op \in {"gaussianPyramid", "laplacianPyramid"} ->
           IF c.slice[1] < 1 THEN "IntegerParameterError" ELSE ""
      [] OTHER -> ""

\* C15: a region filter, gradientMask, bitShift, addSaltPepper or a pyramid
\* builder called with an invalid parameter ends with its parameter error,
\* and the image is as it was before the call: no sample written, no raster
\* created, also when the output raster is of another extent.
C15_ParameterChecksFirst ==
    ParameterError(call) # "" => (call.err = ParameterError(call) /\ store = pre)

\* bitShift with a negative number of bits into an output of another extent
C15_Witness ==
    /\ call.op = "bitShift"
    /\ call.slice[1] < 0
    /\ OutputMismatch(call)
    /\ call.err = "BitError"


\* addSaltPepper has ended normally: lowProb was in [0, 1/2] and the extents
\* were equal
SaltDone == call.op = "addSaltPepper" /\ call.err = "ok"

\* the draw of sample c = <<x, y>>: the draws are taken row by row
DrawOf(c) == Draw(call.buf, c[2] * get_nx(pre[call.ras]) + c[1])

\* 0, 15000 or the input sample, as the draw of the sample decides
SaltExpected(c) ==
    LET d == DrawOf(c)
    IN  IF RLe(d, call.val) THEN Zero
        ELSE IF RLe(RSub(R(1), call.val), d) THEN R(SaltValue)
        ELSE pre[call.ras].data[c]

InputKept == call.out # call.ras => store[call.ras] = pre[call.ras]

\* C16 as stated: every output sample is exactly 0, 15000 or the input
\* sample, as its draw decides, and the input raster is unchanged.
C16_SaltPepperExact ==
    SaltDone =>
        /\ \A c \in DOMAIN store[call.out].data :
               store[call.out].data[c] = SaltExpected(c)
        /\ InputKept

\* C16: every output sample is 0, 15000 or the input sample, as its draw
\* decides, converted to the element type of the output raster; the input
\* raster is unchanged when the output is another raster; with lowProb = 0 a
\* sample differs from the converted input only at a draw of exactly 0 or 1.
C16_SaltPepper ==
    SaltDone =>
        /\ \A c \in DOMAIN store[call.out].data :
               /\ store[call.out].data[c] = Conv(store[call.out].dtype, SaltExpected(c))
               /\ (call.val = Zero /\ DrawOf(c) \notin {Zero, R(1)})
                     => store[call.out].data[c]
                          = Conv(store[call.out].dtype, pre[call.ras].data[c])
        /\ InputKept

\* a call into the other raster that set one sample to 0 and one to the
\* converted 15000
C16_Witness ==
    /\ SaltDone
    /\ call.out # call.ras
    /\ \E c, d \in DOMAIN store[call.out].data :
          /\ RLe(DrawOf(c), call.val)
          /\ store[call.out].data[c] = Zero
          /\ ~RLe(DrawOf(d), call.val)
          /\ RLe(RSub(R(1), call.val), DrawOf(d))
          /\ store[call.out].data[d] = Conv(store[call.out].dtype, R(SaltValue))


\* a pyramid builder has returned its vector
PyramidOps == {"gaussianPyramid", "laplacianPyramid"}

PyramidDone == call.op \in PyramidOps /\ call.err = "ok"

\* the raster the builder creates for level k of the call
LevelName(k) ==
    IF k = 0 THEN call.ras
    ELSE IF call.op = "gaussianPyramid" THEN GPyramidName(k) ELSE LPyramidName(k)

\* the rasters the call created
Built == DOMAIN store \ DOMAIN pre

\* C17: a pyramid builder called with n >= 1 returns n + 1 rasters, the
\* first of them this and element k the raster made for level k; every
\* raster the builder created is an element of the sequence returned.
C17_PyramidReturnsAllLevels ==
    PyramidDone =>
        /\ Len(call.ret) = call.slice[1] + 1
        /\ \A k \in 0 .. call.slice[1] : call.ret[k + 1] = LevelName(k)
        /\ \A name \in Built : \E k \in 1 .. Len(call.ret) : call.ret[k] = name

\* C18: level k of gaussianPyramid is floor(nx / 2^k) by floor(ny / 2^k),
\* which is the extent of level k - 1 halved and rounded down, and level k
\* of laplacianPyramid is nx * 2^k by ny * 2^k, twice the extent of level
\* k - 1; no downsample or upsample of a builder ends with RasterSizeError.
C18_LevelExtents ==
    call.op \in PyramidOps =>
        /\ call.err # "RasterSizeError"
        /\ \A k \in 1 .. MaxLevels + 1 :
              LevelName(k) \in Built =>
                LET nx == get_nx(pre[call.ras])
                    ny == get_ny(pre[call.ras])
                    lower == store[LevelName(k - 1)]
                    level == store[LevelName(k)]
                IN  IF call.op = "gaussianPyramid"
                    THEN /\ get_nx(level) * Pow2(k) <= nx
                         /\ nx < (get_nx(level) + 1) * Pow2(k)
                         /\ get_ny(level) * Pow2(k) <= ny
                         /\ ny < (get_ny(level) + 1) * Pow2(k)
                         /\ get_nx(level) = get_nx(lower) \div 2
                         /\ get_ny(level) = get_ny(lower) \div 2
                    ELSE /\ get_nx(level) = nx * Pow2(k)
                         /\ get_ny(level) = ny * Pow2(k)
                         /\ get_nx(level) = get_nx(lower) * 2
                         /\ get_ny(level) = get_ny(lower) * 2

\* a gaussianPyramid of two levels on a raster of odd width has returned
C18_Witness ==
    /\ PyramidDone
    /\ call.op = "gaussianPyramid"
    /\ call.slice[1] = 2
    /\ get_nx(pre[call.ras]) = 3
    /\ {GPyramidName(1), GPyramidName(2)} \subseteq Built


(***************************************************************************)
(* Raster::FFT_2D, FFT_2D_Inv and lowPassFilter.  The transforms of a row  *)
(* or column are exact for the lengths that divide 4, whose roots of unity *)
(* are 1, i, -1 and -i.                                                    *)
(***************************************************************************)
FFTW_FORWARD == -1

FFTW_BACKWARD == 1

mScale == 200000

\* i^m for m = 0 .. 3, as <<real, imaginary>>
Units == <<<<1, 0>>, <<0, 1>>, <<-1, 0>>, <<0, -1>>>>

\* exp(sign * 2 pi i * m / n), n dividing 4
Root(n, m, sign) == Units[((sign * m * (4 \div n)) % 4) + 1]

\* the least common denominator of the samples k .. of a line, times den
RECURSIVE CommonDen(_, _, _)
CommonDen(line, k, den) ==
    IF k > Len(line) THEN den
    ELSE CommonDen(line, k + 1, (den \div GCD(den, line[k][2])) * line[k][2])

\* out[k] of the plan, in units of 1/den: the terms j .. n-1 added to the
\* real part accRe and the imaginary part accIm
RECURSIVE DftSum(_, _, _, _, _, _, _, _)
DftSum(inRe, inIm, den, k, j, sign, accRe, accIm) ==
    IF j >= Len(inRe) THEN <<Rat(accRe, den), Rat(accIm, den)>>
    ELSE
      LET w == Root(Len(inRe), j * k, sign)
          xr == inRe[j + 1][1] * (den \div inRe[j + 1][2])
          xi == inIm[j + 1][1] * (den \div inIm[j + 1][2])
      IN  DftSum(inRe, inIm, den, k, j + 1, sign,
                 accRe + (xr * w[1] - xi * w[2]), accIm + (xr * w[2] + xi * w[1]))

\* every sample of the line from the second on is v
Uniform(line, v) == \A k \in 2 .. Len(line) : line[k] = v

\* the transform of a real line whose result does not depend on the roots
\* of unity: n equal samples c give n * c followed by zeros, and c followed
\* by zeros gives n equal samples c, in either direction
PlainTransform(line) ==
    IF Uniform(line, line[1])
    THEN [k \in 1 .. Len(line) |-> IF k = 1 THEN RMul(R(Len(line)), line[1]) ELSE Zero]
    ELSE IF Uniform(line, Zero) THEN [k \in 1 .. Len(line) |-> line[1]]
    ELSE <<>>

\* fftw_execute of a plan of direction sign on in = inRe + i inIm: out as
\* the sequence of <<real, imaginary>>.  The roots of unity are rational
\* for the lengths dividing 4; a plan of another length is computed for
\* the lines of PlainTransform, the real and the imaginary part apart
fftw_execute(inRe, inIm, sign) ==
    LET n == Len(inRe)
        den == CommonDen(inIm, 1, CommonDen(inRe, 1, 1))
    IN  IF 4 % n = 0
        THEN [k \in 1 .. n |-> DftSum(inRe, inIm, den, k - 1, 0, sign, 0, 0)]
        ELSE [k \in 1 .. n |-> <<PlainTransform(inRe)[k], PlainTransform(inIm)[k]>>]

\* one pass of a transform, lines i .. of the rasters: the line is read from
\* srcRe and srcIm (no srcIm: imaginary part 0), transformed, the real part
\* divided by scale, and written to dstRe and dstIm (no dstIm: real part
\* only); byRow tells rows from columns.  acc = [err, st]
RECURSIVE TransformPass(_, _, _, _, _, _, _, _, _)
TransformPass(acc, srcRe, srcIm, dstRe, dstIm, byRow, sign, scale, i) ==
    LET nx == get_nx(acc.st[srcRe])
        ny == get_ny(acc.st[srcRe])
        len == IF byRow THEN nx ELSE ny
    IN  IF acc.err # "ok" \/ i >= (IF byRow THEN ny ELSE nx) THEN acc
        ELSE
          LET sliceFFTW == IF byRow THEN <<0, i, nx, 1>> ELSE <<i, 0, 1, ny>>
              none == [k \in 1 .. len |-> Zero]
              dataReal == HRead(acc.st[srcRe], sliceFFTW, none).buf
              dataImg == IF srcIm = "" THEN none
                         ELSE HRead(acc.st[srcIm], sliceFFTW, none).buf
              out == fftw_execute(dataReal, dataImg, sign)
              w1 == HWrite(acc.st[dstRe], sliceFFTW,
                           [k \in 1 .. len |-> RDiv(out[k][1], R(scale))])
              st1 == [acc.st EXCEPT ![dstRe] = w1.ras]
              w2 == IF dstIm = "" THEN [err |-> "ok", ras |-> w1.ras]
                    ELSE HWrite(st1[dstIm], sliceFFTW, [k \in 1 .. len |-> out[k][2]])
          IN  IF w1.err # "ok" THEN [err |-> w1.err, st |-> acc.st]
              ELSE IF w2.err # "ok" THEN [err |-> w2.err, st |-> st1]
              ELSE TransformPass([err |-> "ok",
                                  st |-> IF dstIm = "" THEN st1
                                         ELSE [st1 EXCEPT ![dstIm] = w2.ras]],
                                 srcRe, srcIm, dstRe, dstIm, byRow, sign, scale, i + 1)

\* the extents of rasters r and other differ
SizesDiffer(st, r, other) ==
    \/ get_nx(st[r]) # get_nx(st[other])
    \/ get_ny(st[r]) # get_ny(st[other])

\* this->FFT_2D(img, rasOutReal, rasOutImg): [err, st]
FFT_2D(st, r, rasOutReal, rasOutImg) ==
    IF SizesDiffer(st, r, rasOutReal) THEN [err |-> "RasterSizeError", st |-> st]
    ELSE IF SizesDiffer(st, r, rasOutImg) THEN [err |-> "RasterSizeError", st |-> st]
    ELSE
      LET c1 == CreateRaster(st, "BufferReal", "REAL32", get_nx(st[r]), get_ny(st[r]))
          c2 == CreateRaster(c1.st, "BufferImg", "REAL32", get_nx(st[r]), get_ny(st[r]))
      IN  IF c1.err # "ok" THEN [err |-> c1.err, st |-> st]
          ELSE IF c2.err # "ok" THEN [err |-> c2.err, st |-> c1.st]
          ELSE
            LET rows == TransformPass([err |-> "ok", st |-> c2.st], r, "",
                                      "BufferReal", "BufferImg", TRUE, FFTW_FORWARD, 1, 0)
            IN  TransformPass(rows, "BufferReal", "BufferImg", rasOutReal, rasOutImg,
                              FALSE, FFTW_FORWARD, 1, 0)

\* this->FFT_2D_Inv(img, rasOut, rasInImg): [err, st]
FFT_2D_Inv(st, r, rasOut, rasInImg) ==
    IF SizesDiffer(st, r, rasOut) THEN [err |-> "RasterSizeError", st |-> st]
    ELSE IF SizesDiffer(st, r, rasInImg) THEN [err |-> "RasterSizeError", st |-> st]
    ELSE
      LET c1 == CreateRaster(st, "BufferRealInv", "REAL32", get_nx(st[r]), get_ny(st[r]))
          c2 == CreateRaster(c1.st, "BufferImgInv", "REAL32", get_nx(st[r]), get_ny(st[r]))
      IN  IF c1.err # "ok" THEN [err |-> c1.err, st |-> st]
          ELSE IF c2.err # "ok" THEN [err |-> c2.err, st |-> c1.st]
          ELSE
            LET cols == TransformPass([err |-> "ok", st |-> c2.st], r, rasInImg,
                                      "BufferRealInv", "BufferImgInv", FALSE, FFTW_BACKWARD, 1, 0)
            IN  TransformPass(cols, "BufferRealInv", "BufferImgInv", rasOut, "",
                              TRUE, FFTW_BACKWARD, mScale, 0)

\* this->lowPassFilter(img, rasInReal, rasInImg, rasOut): [err, st]
lowPassFilter(st, r, rasInReal, rasInImg, rasOut) ==
    IF SizesDiffer(st, r, rasOut) THEN [err |-> "RasterSizeError", st |-> st]
    ELSE
      LET f == FFT_2D(st, r, rasInReal, rasInImg)
          width == get_nx(st[r]) \div 5
          setSlice == <<width, width, width, width>>
      IN  IF f.err # "ok" THEN f
          ELSE
            LET s1 == HSet(f.st[rasInReal], setSlice, 0)
                st1 == [f.st EXCEPT ![rasInReal] = s1.ras]
                s2 == HSet(st1[rasInImg], setSlice, 0)
                st2 == [st1 EXCEPT ![rasInImg] = s2.ras]
            IN  IF s1.err # "ok" THEN [err |-> s1.err, st |-> f.st]
                ELSE IF s2.err # "ok" THEN [err |-> s2.err, st |-> st1]
                ELSE FFT_2D_Inv(st2, rasInReal, rasOut, rasInImg)

\* a transform of this has ended: buf holds the names of the other rasters
\* handed to it
TransformEnd(op, r, others, res) ==
    /\ ({r} \cup {others[k] : k \in 1 .. Len(others)}) \subseteq OpenNames
    /\ Finish(res.st, Call(op, r, others[1], <<>>, others, Zero, Zero, res.err, <<>>))
    /\ made' = [n \in DOMAIN res.st |->
                  IF n \in DOMAIN made THEN made[n]
                  ELSE <<get_nx(res.st[n]), get_ny(res.st[n])>>]
    /\ UNCHANGED handles

(***************************************************************************)
(* Transforms on a prepared image: input "a", frequency rasters "re" and   *)
(* "im" and output "out", all written; "im" of the extent of "a" or of one *)
(* sample.  Two calls in a row on the same image.                          *)
(***************************************************************************)
FftDims == {d \in 1 .. MaxDim + 2 : 4 % d = 0}

\* the least extent whose fifth is not 0, one row high
WideExtent == <<5, 1>>

\* a written raster: of an extent whose lines have a length dividing 4
\* filled with the fixture values from start on, of another one with the
\* whole number start + 1 in every sample
FftRaster(t, nx, ny, start) ==
    IF 4 % nx = 0 /\ 4 % ny = 0 THEN FilledRaster(t, nx, ny, start)
    ELSE HSet(NewRaster(t, nx, ny), <<0, 0, nx, ny>>, start + 1).ras

InitFft ==
    /\ \E ta \in {"INT8U", "REAL32"}, tb \in {"INT8U", "REAL32"}, start \in {0, 1} :
       \E ext \in (FftDims \X FftDims) \cup {WideExtent} :
       \E eb \in {ext, <<1, 1>>} :
          store = [n \in {"a", "re", "im", "out"} |->
                     IF n = "a" THEN FftRaster(ta, ext[1], ext[2], start)
                     ELSE IF n = "im" THEN FftRaster(tb, eb[1], eb[2], 2)
                     ELSE FftRaster(tb, ext[1], ext[2], 1)]
    /\ handles = {Handle(n, store[n].dtype) : n \in {"a", "re", "im", "out"}}
    /\ made = [n \in {"a", "re", "im", "out"} |-> <<store[n].nx, store[n].ny>>]
    /\ call = NoCall
    /\ prev = NoCall
    /\ pre = store
    /\ phase = 0

FftForward ==
    /\ phase < 2
    /\ TransformEnd("FFT_2D", "a", <<"re", "im">>, FFT_2D(store, "a", "re", "im"))

FftInverse ==
    /\ phase < 2
    /\ TransformEnd("FFT_2D_Inv", "re", <<"out", "im">>, FFT_2D_Inv(store, "re", "out", "im"))

FftLowPass ==
    /\ phase < 2
    /\ TransformEnd("lowPassFilter", "a", <<"out", "re", "im">>,
                    lowPassFilter(store, "a", "re", "im", "out"))

NextFft ==
    \/ FftForward
    \/ FftInverse
    \/ FftLowPass

SpecFft == InitFft /\ [][NextFft]_vars

\* the rasters FFT_2D and FFT_2D_Inv create for their first pass
AuxiliaryNames == {"BufferReal", "BufferImg", "BufferRealInv", "BufferImgInv"}

TransformOps == {"FFT_2D", "FFT_2D_Inv", "lowPassFilter"}

\* C19: once FFT_2D or FFT_2D_Inv has completed, none of its auxiliary
\* rasters exists in the image, and the FFT_2D, FFT_2D_Inv or lowPassFilter
\* called next on the same image does not end with RasterExists.
C19_AuxiliaryRastersGone ==
    /\ (call.op \in {"FFT_2D", "FFT_2D_Inv"} /\ call.err = "ok")
          => AuxiliaryNames \cap DOMAIN store = {}
    /\ (prev.op \in {"FFT_2D", "FFT_2D_Inv"} /\ prev.err = "ok" /\ call.op \in TransformOps)
          => call.err # "RasterExists"


(***************************************************************************)
(* Raster::drawFilledCircle: the square slice of side 2 * radius from      *)
(* (x0 - radius, y0 - radius) is read, painted and written back.           *)
(***************************************************************************)
\* sample k (from 1) of the slice buffer after the double loop on x and y:
\* data[y * slice[2] + x] = color where dx * dx + dy * dy <= rsq
CirclePixel(data, k, side, radius, color) ==
    LET x == (k - 1) % side
        y == (k - 1) \div side
        dx == x - radius
        dy == y - radius
        distsq == dx * dx + dy * dy
        rsq == radius * radius
    IN  IF distsq <= rsq THEN color ELSE data[k]

\* this->drawFilledCircle(x0, y0, radius, color), radius a whole number:
\* [err, ras]
drawFilledCircle(ras, x0, y0, radius, color) ==
    IF radius < 0 THEN [err |-> "RadiusSizeError", ras |-> ras]
    ELSE IF x0 - radius < 0 \/ x0 + radius > get_nx(ras)
      THEN [err |-> "RasterSizeError", ras |-> ras]
    ELSE IF y0 - radius < 0 \/ y0 + radius > get_ny(ras)
      THEN [err |-> "RasterSizeError", ras |-> ras]
    ELSE
      LET slice == <<x0 - radius, y0 - radius, 2 * radius, 2 * radius>>
          size == slice[3] * slice[4]
          rd == HRead(ras, slice, [k \in 1 .. size |-> Zero])
          data == [k \in 1 .. size |-> CirclePixel(rd.buf, k, slice[3], radius, color)]
      IN  IF rd.err # "ok" THEN [err |-> rd.err, ras |-> ras]
          ELSE HWrite(ras, slice, data)

\* slice holds x0, y0 and radius, val the color
DrawFilledCircle(r, x0, y0, radius, color) ==
    /\ r \in OpenNames
    /\ LET w == drawFilledCircle(store[r], x0, y0, radius, color)
       IN  Finish([store EXCEPT ![r] = w.ras],
                  Call("drawFilledCircle", r, "", <<x0, y0, radius>>, <<>>, color, Zero,
                       w.err, <<>>))
    /\ UNCHANGED <<handles, made>>

(***************************************************************************)
(* Raster::drawRectangle and drawFilledRectangle: the edges are set one at *)
(* a time, a failing set ending the call with the bands before it written. *)
(***************************************************************************)
\* set(oslice, color) for the slices of bands in turn: [err, ras]
RECURSIVE SetBands(_, _, _)
SetBands(acc, bands, color) ==
    IF acc.err # "ok" \/ bands = <<>> THEN acc
    ELSE SetBands(HSet(acc.ras, bands[1], color), Tail(bands), color)

\* oslice at the four calls of set: left, top, bottom and right edge
EdgeBands(slice, radius) ==
    <<<<slice[1], slice[2], radius, slice[4]>>,
      <<slice[1], slice[2], slice[3], radius>>,
      <<slice[1], slice[2] + slice[4] - radius, slice[3], radius>>,
      <<slice[1] + slice[3] - radius, slice[2], radius, slice[4]>>>>

\* the tests both methods start with: "ok" when they pass
RectangleChecks(ras, slice, radius) ==
    IF Len(slice) < 4 THEN "SliceSizeError"
    ELSE IF radius < 0 THEN "RadiusSizeError"
    ELSE IF slice[1] < 0 \/ slice[3] > get_nx(ras) THEN "RasterSizeError"
    ELSE IF slice[2] < 0 \/ slice[4] > get_ny(ras) THEN "RasterSizeError"
    ELSE "ok"

\* this->drawRectangle(slice, radius, color): [err, ras]
drawRectangle(ras, slice, radius, color) ==
    LET chk == RectangleChecks(ras, slice, radius)
    IN  IF chk # "ok" THEN [err |-> chk, ras |-> ras]
        ELSE SetBands([err |-> "ok", ras |-> ras], EdgeBands(slice, radius), color)

\* this->drawFilledRectangle(slice, radius, lineColor, fillColor): [err, ras]
drawFilledRectangle(ras, slice, radius, lineColor, fillColor) ==
    LET chk == RectangleChecks(ras, slice, radius)
    IN  IF chk # "ok" THEN [err |-> chk, ras |-> ras]
        ELSE SetBands(HSet(ras, slice, fillColor), EdgeBands(slice, radius), lineColor)

\* slice is the rectangle, buf holds the radius, val and val2 the colors
DrawRectangle(r, filled, slice, radius, lineColor, fillColor) ==
    /\ r \in OpenNames
    /\ LET w == IF filled
                THEN drawFilledRectangle(store[r], slice, radius, lineColor, fillColor)
                ELSE drawRectangle(store[r], slice, radius, lineColor)
       IN  Finish([store EXCEPT ![r] = w.ras],
                  Call(IF filled THEN "drawFilledRectangle" ELSE "drawRectangle", r, "",
                       slice, <<radius>>, R(lineColor), R(fillColor), w.err, <<>>))
    /\ UNCHANGED <<handles, made>>

(***************************************************************************)
(* Raster::drawLine: the slice is read, the two end circles are drawn on   *)
(* the raster, the line is painted in the buffer read before, and the      *)
(* buffer is written back.                                                 *)
(***************************************************************************)
\* the tests drawLine starts with: "ok" when they pass
LineChecks(ras, slice, radius) ==
    IF Len(slice) < 4 THEN "SliceSizeError"
    ELSE IF radius < 0 THEN "RadiusSizeError"
    ELSE IF slice[1] - radius < 0 \/ slice[1] + radius > get_nx(ras) THEN "RasterSizeError"
    ELSE IF slice[2] - radius < 0 \/ slice[2] + radius > get_ny(ras) THEN "RasterSizeError"
    ELSE IF slice[1] + slice[3] - radius < 0 \/ slice[1] + slice[3] + radius > get_nx(ras)
      THEN "RasterSizeError"
    ELSE IF slice[2] + slice[4] - radius < 0 \/ slice[2] + slice[4] + radius > get_ny(ras)
      THEN "RasterSizeError"
    ELSE "ok"

\* lineDist <= radius for i and j of the second loop:
\* fabs(slice[2] * i - slice[3] * j) / sqrt(slice[2]^2 + slice[3]^2) <= radius
NearLine(slice, radius, i, j) ==
    LET d == slice[3] * i - slice[4] * j
    IN  d * d <= radius * radius * (slice[3] * slice[3] + slice[4] * slice[4])

\* the indices (from 0) at which the two loops store color in data, the
\* rows taken to be stride samples apart; slope is slice[3] / slice[2] on
\* long int
LinePoints(slice, radius, stride) ==
    LET slope == slice[4] \div slice[3]
    IN  {(slope * i) * stride + i : i \in 0 .. slice[3] - 1}
          \cup {p[1] * stride + p[2] :
                  p \in {p \in (0 .. slice[4] - 1) \X (0 .. slice[3] - 1) :
                           NearLine(slice, radius, p[1], p[2])}}

\* this->drawLine(slice, radius, color), radius a whole number and
\* slice[2] > 0: [err, ras].  data has slice[2] * slice[3] elements after
\* read; a store past its end is undefined, and ub is what then happens:
\* the call carrying on with data as it is ("ok") or the process ending
\* there ("crash")
drawLine(ras, slice, radius, color, ub) ==
    LET chk == LineChecks(ras, slice, radius)
    IN  IF chk # "ok" THEN [err |-> chk, ras |-> ras]
        ELSE
          LET rd == HRead(ras, slice, <<>>)
              c1 == drawFilledCircle(ras, slice[1], slice[2], radius, color)
              c2 == drawFilledCircle(c1.ras, slice[1] + slice[3], slice[2] + slice[4],
                                     radius, color)
              points == LinePoints(slice, radius, slice[4])
              data == [k \in 1 .. Len(rd.buf) |-> IF k - 1 \in points THEN color ELSE rd.buf[k]]
          IN  IF rd.err # "ok" THEN [err |-> rd.err, ras |-> ras]
              ELSE IF c1.err # "ok" THEN c1
              ELSE IF c2.err # "ok" THEN c2
              ELSE IF ub = "crash" /\ \E p \in points : p >= Len(rd.buf)
                THEN [err |-> "crash", ras |-> c2.ras]
              ELSE HWrite(c2.ras, slice, data)

\* slice is the line, buf holds the radius, val the color
DrawLine(r, slice, radius, color, ub) ==
    /\ r \in OpenNames
    /\ LET w == drawLine(store[r], slice, radius, color, ub)
       IN  /\ Finish([store EXCEPT ![r] = w.ras],
                     Call("drawLine", r, "", slice, <<radius>>, color, Zero, w.err, <<>>))
           /\ handles' = IF w.err = "crash" THEN {} ELSE handles
    /\ UNCHANGED made

(***************************************************************************)
(* Drawing on a prepared image: one written raster "a", one call.          *)
(***************************************************************************)
DrawDims == 1 .. MaxDim + 2

Colors == {R(7), R(300)}

InitDraw ==
    /\ \E t \in {"INT8U", "REAL32"}, nx \in DrawDims, ny \in DrawDims, start \in {0, 1} :
          store = [n \in {"a"} |-> FilledRaster(t, nx, ny, start)]
    /\ handles = {Handle("a", store["a"].dtype)}
    /\ made = [n \in {"a"} |-> <<store[n].nx, store[n].ny>>]
    /\ call = NoCall
    /\ prev = NoCall
    /\ pre = store
    /\ phase = 0

DrawCircle ==
    /\ phase = 0
    /\ \E x0 \in 0 .. get_nx(store["a"]), y0 \in 0 .. get_ny(store["a"]),
          radius \in -1 .. MaxDim, color \in Colors :
          DrawFilledCircle("a", x0, y0, radius, color)

\* rectangles inside the raster, overhanging it, at negative offsets
RectSlices == (-1 .. 1) \X (-1 .. 1) \X (1 .. MaxDim + 1) \X (1 .. MaxDim + 1)

\* the line color and the fill color
RectColors == <<9, 4>>

DrawRect ==
    /\ phase = 0
    /\ \E filled \in BOOLEAN, slice \in RectSlices \cup {ShortSlice}, radius \in -1 .. MaxDim :
          DrawRectangle("a", filled, slice, radius, RectColors[1], RectColors[2])

\* lines to the right and downwards from a corner or from one sample in
LineSlices == (0 .. 1) \X (0 .. 1) \X (1 .. MaxDim + 2) \X (1 .. MaxDim + 2)

DrawLineTo ==
    /\ phase = 0
    /\ \E slice \in LineSlices \cup {ShortSlice}, radius \in -1 .. 1, color \in Colors,
          ub \in {"ok", "crash"} :
          DrawLine("a", slice, radius, color, ub)

NextDraw ==
    \/ DrawCircle
    \/ DrawRect
    \/ DrawLineTo

SpecDraw == InitDraw /\ [][NextDraw]_vars

\* drawFilledCircle has returned, the closed square from (x0 - radius,
\* y0 - radius) to (x0 + radius, y0 + radius) is inside the raster and the
\* color is a value of the element type of the raster
CircleDrawn ==
    /\ call.op = "drawFilledCircle"
    /\ call.err = "ok"
    /\ call.slice[1] + call.slice[3] < get_nx(pre[call.ras])
    /\ call.slice[2] + call.slice[3] < get_ny(pre[call.ras])
    /\ Representable(pre[call.ras].dtype, call.val)

InCircle(c) ==
    LET dx == c[1] - call.slice[1]
        dy == c[2] - call.slice[2]
    IN  dx * dx + dy * dy <= call.slice[3] * call.slice[3]

\* C20: after drawFilledCircle(x0, y0, radius, color) with the bounding box
\* inside the raster, every sample at a distance of at most radius from
\* (x0, y0) equals color, every other sample is as before, and the coloured
\* samples are symmetric about (x0, y0).
C20_FilledCircle ==
    CircleDrawn =>
        \A c \in DOMAIN store[call.ras].data :
            store[call.ras].data[c] = IF InCircle(c) THEN call.val ELSE pre[call.ras].data[c]


RectangleOps == {"drawRectangle", "drawFilledRectangle"}

\* the rectangle of the call is bigger than the raster or extends beyond it
RectangleOutside ==
    LET s == call.slice
        ras == pre[call.ras]
    IN  \/ s[1] < 0
        \/ s[2] < 0
        \/ s[1] + s[3] > get_nx(ras)
        \/ s[2] + s[4] > get_ny(ras)

\* C21: drawRectangle and drawFilledRectangle given a rectangle that is
\* bigger than the raster or extends beyond it end with RasterSizeError, and
\* no sample of the raster has been modified.
C21_RectangleOutsideFails ==
    (call.op \in RectangleOps /\ Len(call.slice) = 4 /\ call.buf[1] >= 0 /\ RectangleOutside)
        => (call.err = "RasterSizeError" /\ store = pre)


\* a region filter has ended normally: valid n, equal extents; n is slice[1]
RegionDone == call.op \in RegionKinds /\ call.err = "ok"

\* the tiles of the call, by their column and row in the grid of tiles
Tiles ==
    (0 .. (get_nx(pre[call.ras]) \div call.slice[1]) - 1)
        \X (0 .. (get_ny(pre[call.ras]) \div call.slice[1]) - 1)

\* the samples of tile g
TileCells(g) ==
    LET n == call.slice[1]
    IN  (g[1] * n .. g[1] * n + n - 1) \X (g[2] * n .. g[2] * n + n - 1)

\* the input samples of tile g
TileValues(g) == {pre[call.ras].data[c] : c \in TileCells(g)}

TileMin(g) == CHOOSE v \in TileValues(g) : \A w \in TileValues(g) : RLe(v, w)

TileMax(g) == CHOOSE v \in TileValues(g) : \A w \in TileValues(g) : RLe(w, v)

\* C22: midpointFilter and rangeFilter write to every sample of a tile
\* (localMin + localMax) / 2 and localMax - localMin, localMin and localMax
\* the minimum and maximum of all n * n input samples of the tile (the value
\* is compared as the output raster stores it).
C22_TileMinMaxOverAllRows ==
    (RegionDone /\ call.op # "harmonicMean") =>
        \A g \in Tiles : \A c \in TileCells(g) :
            store[call.out].data[c]
              = Conv(store[call.out].dtype,
                     IF call.op = "midpointFilter"
                     THEN RDiv(RAdd(TileMin(g), TileMax(g)), R(2))
                     ELSE RSub(TileMax(g), TileMin(g)))


\* the samples of the tiles of the call
Tiled == UNION {TileCells(g) : g \in Tiles}

ThreshDone == call.op = "autoLocalThresh" /\ call.err = "ok"

SectorX == get_nx(pre[call.ras]) \div call.slice[1]

SectorY == get_ny(pre[call.ras]) \div call.slice[1]

\* the sectors that hold samples, by column and row in the grid of sectors
Sectors ==
    IF SectorX = 0 \/ SectorY = 0 THEN {}
    ELSE (0 .. call.slice[1] - 1) \X (0 .. call.slice[1] - 1)

SectorCells(g) ==
    (g[1] * SectorX .. g[1] * SectorX + SectorX - 1)
        \X (g[2] * SectorY .. g[2] * SectorY + SectorY - 1)

SectorValues(g) == {pre[call.ras].data[c] : c \in SectorCells(g)}

SectorMin(g) == CHOOSE v \in SectorValues(g) : \A w \in SectorValues(g) : RLe(v, w)

SectorMax(g) == CHOOSE v \in SectorValues(g) : \A w \in SectorValues(g) : RLe(w, v)

\* C24: after autoLocalThresh(output, p) every output sample of a sector is
\* 0 if the input sample is below (max + min) / 3 and the input sample
\* otherwise, max and min the maximum and minimum of the input samples of the
\* sector (the value is compared as the output raster stores it); output
\* samples outside the sectors are as before, and so is the input raster
\* when it is not the output.
C24_SectorThreshold ==
    ThreshDone =>
        /\ \A g \in Sectors : \A c \in SectorCells(g) :
              LET v == pre[call.ras].data[c]
                  threshhold == RDiv(RAdd(SectorMax(g), SectorMin(g)), R(3))
              IN  store[call.out].data[c]
                    = Conv(store[call.out].dtype, IF RLt(v, threshhold) THEN Zero ELSE v)
        /\ \A c \in DOMAIN store[call.out].data \ UNION {SectorCells(g) : g \in Sectors} :
              store[call.out].data[c] = pre[call.out].data[c]
        /\ InputKept

\* ---------------------------------------------------------------------
\* Resampling between two rasters: "a" of any element type and "b" whose
\* extent is half of a's, twice a's, or neither
\* ---------------------------------------------------------------------

SampDims == 1 .. MaxDim + 2

\* the extents of b tried for an a of nx by ny
SampExtents(nx, ny) ==
    {<<nx \div 2, ny \div 2>>, <<1, 1>>}
        \cup (IF nx <= MaxDim /\ ny <= MaxDim THEN {<<2 * nx, 2 * ny>>} ELSE {})

InitSamp ==
    /\ \E ta \in RasterTypes, tb \in {"INT8U", "REAL32"},
          nx \in SampDims, ny \in SampDims, start \in {0, 1}, sb \in {1, 3} :
       \E eb \in SampExtents(nx, ny) :
          store = [n \in {"a", "b"} |->
                     IF n = "a" THEN FilledRaster(ta, nx, ny, start)
                     ELSE FilledRaster(tb, eb[1], eb[2], sb)]
    /\ handles = {Handle(n, store[n].dtype) : n \in {"a", "b"}}
    /\ made = [n \in {"a", "b"} |-> <<store[n].nx, store[n].ny>>]
    /\ call = NoCall
    /\ prev = NoCall
    /\ pre = store
    /\ phase = 0

SampDownsample ==
    /\ phase = 0
    /\ FilterEnd("downsample", "a", "b", <<>>, Zero, <<>>, Downsample(store, "a", "b"))

SampUpsample ==
    /\ phase = 0
    /\ FilterEnd("upsample", "a", "b", <<>>, Zero, <<>>, Upsample(store, "a", "b"))

SampGaussianPyramid ==
    /\ phase = 0
    /\ \E n \in 1 .. MaxLevels, ub \in {"ok", "crash"} :
          GaussianPyramid(Handle("a", store["a"].dtype), n, ub)

NextSamp == SampDownsample \/ SampUpsample \/ SampGaussianPyramid

SpecSamp == InitSamp /\ [][NextSamp]_vars

\* downsample was called with an output of half the extent
DownDone ==
    /\ call.op = "downsample"
    /\ get_nx(pre[call.out]) = get_nx(pre[call.ras]) \div 2
    /\ get_ny(pre[call.out]) = get_ny(pre[call.ras]) \div 2

\* K, the sum of the 25 entries of the kernel, times v
Rescaled(v) == RMul(Rat(256, mKernel), v)

\* C25 as stated: downsample into a raster of half the extent ends without
\* an error and output(r, c) is the convolved input sample at 0-based
\* position (2r, 2c).
C25_KeepsEvenPositions ==
    DownDone =>
        /\ call.err = "ok"
        /\ \A c \in Cells(get_nx(store[call.out]), get_ny(store[call.out])) :
              store[call.out].data[c] = store[call.ras].data[<<2 * c[1], 2 * c[2]>>]

\* C25 amended: downsample into a raster of half the extent ends without an
\* error, no write leaves the output, and output(r, c) is the convolved
\* input sample at 0-based position (2r + 1, 2c + 1), converted to the
\* element type of the output.
C25_KeepsOddPositions ==
    DownDone =>
        /\ call.err = "ok"
        /\ \A c \in Cells(get_nx(store[call.out]), get_ny(store[call.out])) :
              store[call.out].data[c] =
                  Conv(store[call.out].dtype,
                       store[call.ras].data[<<2 * c[1] + 1, 2 * c[2] + 1>>])

\* a 4 by 4 raster was downsampled to 2 by 2 and the two positions differ
C25_Witness ==
    /\ DownDone
    /\ get_nx(store[call.out]) = 2
    /\ get_ny(store[call.out]) = 2
    /\ store[call.ras].data[<<0, 0>>] # store[call.ras].data[<<1, 1>>]
    /\ store[call.out].data[<<0, 0>>] = store[call.ras].data[<<1, 1>>]

\* C26 as stated: after downsample every sample of this is K times its
\* previous value.
C26_RescaledExactly ==
    DownDone =>
        \A c \in DOMAIN store[call.ras].data :
            store[call.ras].data[c] = Rescaled(pre[call.ras].data[c])

\* gaussianPyramid returned its levels
GaussianDone == call.op = "gaussianPyramid" /\ call.err = "ok"

\* C26 amended: after downsample every sample of this is K times its
\* previous value converted to the element type of this; after
\* gaussianPyramid(n) level 0 is rescaled so, every level k with 0 < k < n
\* holds K times the samples it took from level k - 1, and level n holds
\* the samples it took from level n - 1 as they were.
C26_RescaledInPlace ==
    /\ DownDone =>
          \A c \in DOMAIN store[call.ras].data :
              store[call.ras].data[c] =
                  Conv(store[call.ras].dtype, Rescaled(pre[call.ras].data[c]))
    /\ GaussianDone =>
          /\ \A c \in DOMAIN store[call.ras].data :
                store[call.ras].data[c] =
                    Conv(store[call.ras].dtype, Rescaled(pre[call.ras].data[c]))
          /\ \A k \in 1 .. call.slice[1] :
                \A c \in DOMAIN store[GPyramidName(k)].data :
                    LET lower == IF k = 1 THEN call.ras ELSE GPyramidName(k - 1)
                        taken == store[lower].data[<<2 * c[1] + 1, 2 * c[2] + 1>>]
                    IN  store[GPyramidName(k)].data[c] =
                            IF k < call.slice[1] THEN Rescaled(taken) ELSE taken

\* a pyramid of two levels was built on a raster of one-byte samples whose
\* rescaled values are not whole, and level 1 holds a sample that is not 0
C26_Witness ==
    /\ GaussianDone
    /\ call.slice[1] = 2
    /\ store[call.ras].dtype = "INT8U"
    /\ \E c \in DOMAIN store["GPyramid2"].data : store["GPyramid2"].data[c] # Zero
    /\ \E c \in DOMAIN store[call.ras].data :
          store[call.ras].data[c] # Rescaled(pre[call.ras].data[c])

\* upsample was called with an output of twice the extent
UpDone ==
    /\ call.op = "upsample"
    /\ get_nx(pre[call.out]) = 2 * get_nx(pre[call.ras])
    /\ get_ny(pre[call.out]) = 2 * get_ny(pre[call.ras])

\* the store before the call with the output holding zeros only
BlankOutput ==
    [pre EXCEPT ![call.out] = NewRaster(pre[call.out].dtype, pre[call.out].nx, pre[call.out].ny)]

\* C27: upsample into a raster of twice the extent ends without an error,
\* so no write left the output; the input is as it was, and the output is
\* what the call leaves in an output that held zeros only, whatever the
\* output held before.
C27_UpsampleIgnoresOldOutput ==
    UpDone =>
        /\ call.err = "ok"
        /\ store[call.ras] = pre[call.ras]
        /\ store[call.out] = Upsample(BlankOutput, call.ras, call.out).st[call.out]

\* a 2 by 2 raster was upsampled into a 4 by 4 raster whose rows 0 and 2
\* held samples other than 0 before, and those samples are replaced
C27_Witness ==
    /\ UpDone
    /\ get_nx(pre[call.ras]) = 2
    /\ get_ny(pre[call.ras]) = 2
    /\ \A y \in {0, 2} :
          \E x \in 0 .. 3 : /\ pre[call.out].data[<<x, y>>] # Zero
                            /\ store[call.out].data[<<x, y>>] # pre[call.out].data[<<x, y>>]

\* lowPassFilter was called with the two frequency rasters and the output
\* of the extent of this
LowPassDone ==
    /\ call.op = "lowPassFilter"
    /\ \A k \in 1 .. Len(call.buf) : ~SizesDiffer(pre, call.ras, call.buf[k])

\* C28: when this, the two frequency rasters and the output have the same
\* extent, the square (nx/5, nx/5, nx/5, nx/5) that lowPassFilter sets to 0
\* is not empty and lies inside the raster, the call does not end with
\* SliceSizeError, and a call that fails has not written the frequency
\* rasters.
C28_SquareInsideRaster ==
    LowPassDone =>
        LET width == get_nx(pre[call.ras]) \div 5
        IN  /\ width > 0
            /\ 2 * width <= get_nx(pre[call.ras])
            /\ 2 * width <= get_ny(pre[call.ras])
            /\ call.err # "SliceSizeError"
            /\ call.err # "ok" =>
                  \A k \in 2 .. Len(call.buf) : store[call.buf[k]] = pre[call.buf[k]]

\* drawLine was called with a slice of positive width and height and a
\* radius of 0 or more that pass its tests
LineDone ==
    /\ call.op = "drawLine"
    /\ Len(call.slice) = 4
    /\ call.slice[3] > 0
    /\ call.slice[4] > 0
    /\ call.buf[1] >= 0
    /\ LineChecks(pre[call.ras], call.slice, call.buf[1]) = "ok"

\* sample c is one drawFilledCircle(x0, y0, radius, color) paints
Painted(c, x0, y0, radius) ==
    /\ c[1] \in x0 - radius .. x0 + radius - 1
    /\ c[2] \in y0 - radius .. y0 + radius - 1
    /\ (c[1] - x0) * (c[1] - x0) + (c[2] - y0) * (c[2] - y0) <= radius * radius

\* C29: drawLine given a slice of positive width w and height h and a
\* radius of 0 or more that pass its tests completes; every index at which
\* it stores into the buffer is in [0, w * h); the element of row i and
\* column j is the sample i rows down and j columns right of the origin of
\* the slice, so every sample of the slice near the line holds the color;
\* and every sample the two end circles paint holds the color.
C29_LineInsideBuffer ==
    LineDone =>
        LET s == call.slice
            radius == call.buf[1]
            color == Conv(pre[call.ras].dtype, call.val)
        IN  /\ call.err = "ok"
            /\ LinePoints(s, radius, s[4]) \subseteq 0 .. s[3] * s[4] - 1
            /\ \A i \in 0 .. s[4] - 1, j \in 0 .. s[3] - 1 :
                  NearLine(s, radius, i, j) =>
                      store[call.ras].data[<<s[1] + j, s[2] + i>>] = color
            /\ \A c \in DOMAIN store[call.ras].data :
                  (Painted(c, s[1], s[2], radius)
                     \/ Painted(c, s[1] + s[3], s[2] + s[4], radius))
                      => store[call.ras].data[c] = color

\* an operator form was applied again to rasters of the same names while
\* the raster the first application created is in the store
RepeatDone ==
    /\ call.op = "operator"
    /\ prev.op = "operator"
    /\ call.form = prev.form
    /\ call.ras = prev.ras
    /\ call.buf = prev.buf
    /\ call.out = ResultName(call.form, call.ras,
                             IF call.buf = <<>> THEN "val" ELSE call.buf[1])
    /\ call.out \in DOMAIN pre

====
